---- MODULE Spec2Model ----
(***************************************************************************)
(* Model of the relationship-tracker application: the data-access wrapper  *)
(* (DatabaseService), its remote mirroring (logProfileDataForCollection,   *)
(* submitFeedback) and the notification wrapper (NotificationService).     *)
(*                                                                         *)
(* JavaScript values are tagged records [t, v].  A string is a sequence of *)
(* character atoms: the JSON meta characters are atoms of their own and    *)
(* every other atom stands for a run of ordinary characters.               *)
(***************************************************************************)
EXTENDS Integers, Sequences, FiniteSets, TLC

----------------------------------------------------------------------------
(* JavaScript / SQLite values *)

Null == [t |-> "null", v |-> 0]

Undefined == [t |-> "undef", v |-> 0]

Num(n) == [t |-> "num", v |-> n]

Str(s) == [t |-> "str", v |-> s]

List(l) == [t |-> "list", v |-> l]

Obj(kvs) == [t |-> "obj", v |-> kvs]

Bool(b) == [t |-> "bool", v |-> b]

\* JavaScript truthiness of the values the model uses (`x ? a : b`, `x || y`).
Truthy(x) ==
  CASE x.t = "null" -> FALSE
    [] x.t = "undef" -> FALSE
    [] x.t = "num" -> x.v # 0
    [] x.t = "str" -> Len(x.v) > 0
    [] x.t = "bool" -> x.v
    [] OTHER -> TRUE

----------------------------------------------------------------------------
(* JSON.stringify and JSON.parse over character atoms *)

RECURSIVE EscapeChars(_)
EscapeChars(s) ==
  IF s = <<>> THEN <<>>
  ELSE IF Head(s) \in {"\"", "\\"}
       THEN <<"\\", Head(s)>> \o EscapeChars(Tail(s))
       ELSE <<Head(s)>> \o EscapeChars(Tail(s))

QuoteString(s) == <<"\"">> \o EscapeChars(s) \o <<"\"">>

RECURSIVE StringifyValue(_)
RECURSIVE StringifyItems(_)
RECURSIVE StringifyMembers(_)
\* JSON.stringify, as a sequence of character atoms.  Inside an array an
\* undefined element is written as null; an object member whose value is
\* undefined is left out.
StringifyValue(x) ==
  CASE x.t = "null" -> <<"null">>
    [] x.t = "undef" -> <<"null">>
    [] x.t = "num" -> <<ToString(x.v)>>
    [] x.t = "str" -> QuoteString(x.v)
    [] x.t = "list" -> <<"[">> \o StringifyItems(x.v) \o <<"]">>
    [] x.t = "obj" -> <<"{">> \o StringifyMembers(x.v) \o <<"}">>

StringifyItems(l) ==
  IF l = <<>> THEN <<>>
  ELSE IF Len(l) = 1 THEN StringifyValue(l[1])
  ELSE StringifyValue(l[1]) \o <<",">> \o StringifyItems(Tail(l))

StringifyMembers(kvs) ==
  IF kvs = <<>> THEN <<>>
  ELSE IF kvs[1][2].t = "undef" THEN StringifyMembers(Tail(kvs))
  ELSE LET rest == StringifyMembers(Tail(kvs))
           one == QuoteString(kvs[1][1]) \o <<":">> \o StringifyValue(kvs[1][2])
       IN IF rest = <<>> THEN one ELSE one \o <<",">> \o rest

\* JSON.stringify(x) as the text handed to the database.
JSONStringify(x) == Str(StringifyValue(x))

ParseError == [ok |-> FALSE, val |-> Null, next |-> 0]

RECURSIVE ParseChars(_, _, _)
\* Reads the characters of a string literal from position i (after the
\* opening quote) up to the closing quote, undoing the escapes.
ParseChars(toks, i, acc) ==
  IF i > Len(toks) THEN ParseError
  ELSE IF toks[i] = "\"" THEN [ok |-> TRUE, val |-> Str(acc), next |-> i + 1]
  ELSE IF toks[i] = "\\"
       THEN IF i + 1 > Len(toks) THEN ParseError
            ELSE ParseChars(toks, i + 2, Append(acc, toks[i + 1]))
  ELSE ParseChars(toks, i + 1, Append(acc, toks[i]))

RECURSIVE ParseValue(_, _)
RECURSIVE ParseItems(_, _, _)
RECURSIVE ParseMembers(_, _, _)
ParseValue(toks, i) ==
  IF i > Len(toks) THEN ParseError
  ELSE CASE toks[i] = "null" -> [ok |-> TRUE, val |-> Null, next |-> i + 1]
         [] toks[i] = "\"" -> ParseChars(toks, i + 1, <<>>)
         [] toks[i] = "[" ->
              IF i + 1 <= Len(toks) /\ toks[i + 1] = "]"
              THEN [ok |-> TRUE, val |-> List(<<>>), next |-> i + 2]
              ELSE ParseItems(toks, i + 1, <<>>)
         [] toks[i] = "{" ->
              IF i + 1 <= Len(toks) /\ toks[i + 1] = "}"
              THEN [ok |-> TRUE, val |-> Obj(<<>>), next |-> i + 2]
              ELSE ParseMembers(toks, i + 1, <<>>)
         [] OTHER -> ParseError

ParseItems(toks, i, acc) ==
  LET item == ParseValue(toks, i)
  IN IF ~item.ok \/ item.next > Len(toks) THEN ParseError
     ELSE IF toks[item.next] = "]"
          THEN [ok |-> TRUE, val |-> List(Append(acc, item.val)),
                next |-> item.next + 1]
     ELSE IF toks[item.next] = ","
          THEN ParseItems(toks, item.next + 1, Append(acc, item.val))
     ELSE ParseError

ParseMembers(toks, i, acc) ==
  IF i > Len(toks) \/ toks[i] # "\"" THEN ParseError
  ELSE LET key == ParseChars(toks, i + 1, <<>>)
       IN IF ~key.ok \/ key.next > Len(toks) \/ toks[key.next] # ":"
          THEN ParseError
          ELSE LET item == ParseValue(toks, key.next + 1)
                   kvs == Append(acc, <<key.val.v, item.val>>)
               IN IF ~item.ok \/ item.next > Len(toks) THEN ParseError
                  ELSE IF toks[item.next] = "}"
                       THEN [ok |-> TRUE, val |-> Obj(kvs),
                             next |-> item.next + 1]
                  ELSE IF toks[item.next] = ","
                       THEN ParseMembers(toks, item.next + 1, kvs)
                  ELSE ParseError

\* JSON.parse(text): ok = FALSE stands for the SyntaxError it throws.
JSONParse(text) ==
  LET r == ParseValue(text.v, 1)
  IN IF r.ok /\ r.next = Len(text.v) + 1
     THEN [ok |-> TRUE, val |-> r.val]
     ELSE [ok |-> FALSE, val |-> Null]

----------------------------------------------------------------------------
(* Bounds of the model *)

\* Profiles that are ever inserted (AUTOINCREMENT ids 1..MaxProfiles).
MaxProfiles == 2

\* Rows ever inserted into each of reminders, interactions, life_events
\* and feedback.
MaxDependents == 1

\* Storage failures injected in one run.
MaxFaults == 1

\* Math.random() draws 0..MaxRandom instead of 0..999.
MaxRandom == 1

\* Callers whose asynchronous operations may be in flight at the same time.
Callers == {"c1", "c2"}

----------------------------------------------------------------------------
(* Profile records *)

ScalarFields ==
  {"name", "age", "phone", "email", "relationship", "job", "notes",
   "photoUri", "instagram", "snapchat", "twitter", "tiktok", "facebook",
   "birthday", "lastContactDate"}

ListFields ==
  {"tags", "parents", "kids", "brothers", "sisters", "siblings", "pets",
   "foodLikes", "foodDislikes", "interests"}

DataFields == ScalarFields \cup ListFields

ViewFields == DataFields \cup {"id"}

Empty == Str(<<>>)

\* A tag as addTag builds it: { text, color: { name, light, dark, text } }.
TagOf(text, colour) ==
  Obj(<< << <<"text">>, Str(<<text>>) >>,
         << <<"color">>,
            Obj(<< << <<"name">>, Str(<<colour>>) >>,
                   << <<"light">>, Str(<<"#DBEAFE">>) >>,
                   << <<"dark">>, Str(<<"#1E3A8A">>) >>,
                   << <<"text">>, Str(<<"#1E40AF">>) >> >>) >> >>)

\* The initial state of the create form; photoUri, pets, birthday and id are
\* not keys of it.
NewProfileForm ==
  [f \in ViewFields |->
     CASE f \in {"id", "photoUri", "pets", "birthday"} -> Undefined
       [] f \in {"age", "lastContactDate"} -> Null
       [] f = "relationship" -> Str(<<"friend">>)
       [] f \in ListFields -> List(<<>>)
       [] OTHER -> Empty]

\* A profile as the create screen hands it to createOrUpdateProfile.
FormAnn ==
  [NewProfileForm EXCEPT
     !["name"] = Str(<<"Ann">>),
     !["parents"] = List(<<Str(<<"Bob">>), Str(<<"Max", " ", "(dog)">>)>>),
     !["tags"] = List(<<TagOf("tech", "Blue")>>),
     !["lastContactDate"] = Str(<<"2024-01-15T00", ":", "00", ":", "00.000Z">>)]

\* A profile with every field filled in, as the edit screen hands it over.
FormBo ==
  [f \in ViewFields |->
     CASE f = "id" -> Undefined
       [] f = "name" -> Str(<<"Bo">>)
       [] f = "age" -> Num(30)
       [] f = "notes" -> Str(<<"said", " ", "\"", "hi", "\"", ",", "\\", "[", "]">>)
       [] f = "tags" -> List(<<TagOf("design", "Green"), TagOf("ab", "Red")>>)
       [] f = "pets" -> List(<<Str(<<"Luna", " ", "(cat)">>)>>)
       [] f = "kids" -> List(<<Str(<<"{", "Kim", "}">>), Str(<<"null">>)>>)
       [] f \in ListFields -> List(<<Str(<<f>>)>>)
       [] OTHER -> Str(<<f, ":", "x">>)]

\* A record that carries a name and nothing else (every other key absent).
FormBare ==
  [f \in ViewFields |-> IF f = "name" THEN Str(<<"Cy">>) ELSE Undefined]

ProfileForms == {FormAnn, FormBo, FormBare}

----------------------------------------------------------------------------
(* State *)

VARIABLES
  platform,        \* Platform.OS: "web", "ios" or "android"
  db,              \* DatabaseService.db: "null" or "open"
  readyPromise,    \* DatabaseService.readyPromise: "null", "pending", "resolved"
  isWebFallback,   \* DatabaseService.isWebFallback
  initPc,          \* where the initializeDatabase run in flight stands
  initFaults,      \* storage errors met by the initializeDatabase run in flight
  initCalls,       \* how often openDatabaseAsync and createTables were called
                   \* by initializeDatabase, and how often it threw
  faultsLeft,      \* storage failures the environment may still produce
  profiles,        \* table profiles: id -> row (column -> SQLite value)
  updatedOrder,    \* ids of profiles by updatedAt, most recent first
  nextId,          \* AUTOINCREMENT counter of each table
  reminders,       \* table reminders: set of rows
  interactions,    \* table interactions: set of rows
  lifeEvents,      \* table life_events: set of rows
  feedback,        \* table feedback: set of rows
  session,         \* AuthService session: "none", "anon" (no user id), "user"
  everSignedIn,    \* a session with a user id has existed
  remoteClient,    \* (AuthService as any).supabase is set
  remoteProfiles,  \* rows of the remote table collected_profiles_data
  remoteFeedback,  \* rows of the remote table feedback
  calls,           \* the operation each caller has in flight, or its last result
  isInitialized,   \* NotificationService.isInitialized
  permission,      \* the notification permission the OS holds for the app
  clock,           \* the time in ms that new Date() reads
  scheduled,       \* the notifications scheduled with the OS
  nextNotification,\* the OS' counter for notification identifiers
  ncalls,          \* the NotificationService call each caller has in flight
  screens,         \* the screen operation each caller has in flight, or its outcome
  columns,         \* the columns of the profiles table on disk; {} when there is no table
  profile,         \* the Parents field of the form of a screen: its text and its list
  layout,          \* RootLayout: its state, its timer, its effects and listeners
  saving           \* the saving flag of the create and of the edit screen

dbVars == <<db, readyPromise, isWebFallback, initPc, initFaults, initCalls>>

tableVars == <<profiles, updatedOrder, nextId, reminders, interactions,
               lifeEvents, feedback>>

notifVars == <<isInitialized, permission, clock, scheduled, nextNotification,
               ncalls>>

uiVars == <<screens, profile, layout, saving>>

remoteVars == <<session, everSignedIn, remoteClient, remoteProfiles,
                remoteFeedback>>

----------------------------------------------------------------------------
(* Errors and results *)

NoError == [src |-> "none", site |-> "none", msg |-> "none"]

\* An error raised by expo-sqlite; msg "cantopen" stands for a message that
\* includes 'unable to open database file', "io" for any other message.
StorageError(site, msg) == [src |-> "storage", site |-> site, msg |-> msg]

StorageMessages == {"cantopen", "io"}

NoResult == [kind |-> "none", val |-> Undefined, err |-> NoError]

Returned(v) == [kind |-> "ok", val |-> v, err |-> NoError]

Threw(e) == [kind |-> "throw", val |-> Undefined, err |-> e]

IdleCall ==
  [op |-> "none", pc |-> "idle", arg |-> Undefined, res |-> NoResult,
   id |-> Undefined, user |-> "none", faults |-> {}, remote |-> "none",
   wrote |-> FALSE]

\* The outcomes of one call into the storage: "ok", or a failure while the
\* environment still has one to give.
StorageOutcomes == {"ok"} \cup (IF faultsLeft > 0 THEN StorageMessages ELSE {})

SpendFault(outcome) ==
  faultsLeft' = IF outcome = "ok" THEN faultsLeft ELSE faultsLeft - 1

----------------------------------------------------------------------------
(* DatabaseService: init, initializeDatabase, ensureReady *)

Awaiting(c) == calls[c].pc = "awaitReady"

\* ensureReady has returned for caller c: the promise it awaits is resolved.
Ready(c) == Awaiting(c) /\ readyPromise = "resolved"

\* init() with no readyPromise: initializeDatabase runs up to its first
\* await (on web it returns at once) and its promise is stored.
StartInit ==
  IF platform = "web"
  THEN /\ isWebFallback' = TRUE
       /\ readyPromise' = "resolved"
       /\ UNCHANGED <<db, initPc, initFaults, initCalls>>
  ELSE /\ readyPromise' = "pending"
       /\ initPc' = "open"
       /\ initFaults' = {}
       /\ initCalls' = [initCalls EXCEPT !.opens = @ + 1]
       /\ UNCHANGED <<db, isWebFallback>>

\* An ensureReady that calls initializeDatabase whatever readyPromise holds.
EnsureReadyInitializes == StartInit

\* ensureReady up to its await, with init(): a readyPromise that is set is
\* awaited, and initializeDatabase is not called again.
EnsureReady == IF readyPromise = "null" THEN StartInit ELSE UNCHANGED dbVars

\* A caller starts operation op: it runs up to `await this.ensureReady()`.
Begin(c, op, arg) ==
  /\ calls[c].pc \in {"idle", "done"}
  /\ EnsureReady
  /\ calls' = [calls EXCEPT ![c] =
                 [IdleCall EXCEPT !.op = op, !.pc = "awaitReady", !.arg = arg]]

\* EntersWebFallback without the test of the message.
EntersWebFallbackAlways(err) == TRUE

\* The test of the catch block of initializeDatabase.
EntersWebFallback(err) == err.msg = "cantopen"

\* initializeDatabase ends without throwing: the callers that await it go on,
\* having met the storage errors in faults on their way.
InitResolves(faults) ==
  /\ readyPromise' = "resolved"
  /\ initPc' = "none"
  /\ initFaults' = faults
  /\ initCalls' = initCalls
  /\ calls' = [c \in Callers |->
                 IF Awaiting(c)
                 THEN [calls[c] EXCEPT !.faults = @ \cup faults]
                 ELSE calls[c]]

\* InitCatch without `this.readyPromise = null`.
InitCatchKeepsPromise(err) ==
  IF EntersWebFallback(err)
  THEN /\ isWebFallback' = TRUE
       /\ InitResolves(initFaults \cup {err})
  ELSE /\ isWebFallback' = isWebFallback
       /\ readyPromise' = "rejected"
       /\ initPc' = "none"
       /\ initFaults' = initFaults \cup {err}
       /\ initCalls' = [initCalls EXCEPT !.threw = @ + 1]
       /\ calls' = [c \in Callers |->
                      IF Awaiting(c)
                      THEN [calls[c] EXCEPT
                              !.pc = "done", !.res = Threw(err),
                              !.faults = @ \cup initFaults \cup {err}]
                      ELSE calls[c]]

\* The catch block of initializeDatabase.
InitCatch(err) ==
  IF EntersWebFallback(err)
  THEN /\ isWebFallback' = TRUE
       /\ InitResolves(initFaults \cup {err})
  ELSE /\ isWebFallback' = isWebFallback
       /\ readyPromise' = "null"
       /\ initPc' = "none"
       /\ initFaults' = initFaults \cup {err}
       /\ initCalls' = [initCalls EXCEPT !.threw = @ + 1]
       /\ calls' = [c \in Callers |->
                      IF Awaiting(c)
                      THEN [calls[c] EXCEPT
                              !.pc = "done", !.res = Threw(err),
                              !.faults = @ \cup initFaults \cup {err}]
                      ELSE calls[c]]

\* SQLite.openDatabaseAsync settles.
OpenDatabase ==
  /\ initPc = "open"
  /\ \E o \in StorageOutcomes :
       /\ SpendFault(o)
       /\ IF o = "ok"
          THEN /\ db' = "open"
               /\ initPc' = "migrate"
               /\ initCalls' = [initCalls EXCEPT !.creates = @ + 1]
               /\ UNCHANGED <<readyPromise, isWebFallback, initFaults, calls>>
          ELSE /\ db' = db
               /\ InitCatch(StorageError("open", o))
  /\ UNCHANGED <<platform, uiVars, columns, notifVars, tableVars, remoteVars>>

\* The columns that migrateDatabase adds when PRAGMA table_info does not
\* list them, in the order of its tests.
MigratedColumns ==
  <<"parents", "brothers", "sisters", "instagram", "snapchat", "twitter",
    "tiktok", "facebook">>

\* The columns of CREATE TABLE IF NOT EXISTS profiles.
AllColumns == DataFields \cup {"id", "createdAt", "updatedAt"}

\* MissingColumns without the test of the last column, facebook.
MissingColumnsButLast ==
  LET Missing(col) == col \notin columns /\ col # "facebook"
  IN SelectSeq(MigratedColumns, Missing)

\* missingColumns
MissingColumns ==
  LET Missing(col) == col \notin columns
  IN SelectSeq(MigratedColumns, Missing)

\* The profiles table after `ALTER TABLE profiles ADD COLUMN` ran for the
\* columns in added: the rows stored hold NULL in a new column.
AddColumns(added) ==
  /\ columns' = columns \cup added
  /\ profiles' = [i \in DOMAIN profiles |->
                    [f \in DataFields |->
                       IF f \in added THEN Null ELSE profiles[i][f]]]

\* migrateDatabase: the PRAGMA and the ALTER TABLE statements; an error of
\* any of them is caught and only logged. With no profiles table the first
\* ALTER TABLE fails; a storage failure ends the loop after any number of
\* the missing columns.
MigrateDatabase ==
  /\ initPc = "migrate"
  /\ \E o \in StorageOutcomes :
       /\ SpendFault(o)
       /\ initFaults' = IF o = "ok" THEN initFaults
                        ELSE initFaults \cup {StorageError("migrate", o)}
       /\ IF columns = {}
          THEN AddColumns({})
          ELSE IF o = "ok"
          THEN AddColumns({MissingColumns[k] : k \in 1..Len(MissingColumns)})
          ELSE \E n \in 0..Len(MissingColumns) :
                 /\ n < Len(MissingColumns) \/ n = 0
                 /\ AddColumns({MissingColumns[k] : k \in 1..n})
  /\ initPc' = "create"
  /\ UNCHANGED <<platform, uiVars, notifVars, db, readyPromise, isWebFallback, initCalls,
                 updatedOrder, nextId, reminders, interactions, lifeEvents,
                 feedback, remoteVars, calls>>

\* createTables: the CREATE TABLE IF NOT EXISTS statements; an error is
\* logged and thrown again, into the catch block of initializeDatabase.
CreateTables ==
  /\ initPc = "create"
  /\ \E o \in StorageOutcomes :
       /\ SpendFault(o)
       /\ IF o = "ok"
          THEN /\ isWebFallback' = isWebFallback
               /\ columns' = IF columns = {} THEN AllColumns ELSE columns
               /\ InitResolves(initFaults)
          ELSE /\ columns' = columns
               /\ InitCatch(StorageError("create", o))
  /\ UNCHANGED <<platform, uiVars, notifVars, db, tableVars, remoteVars>>

\* The operation of caller c ends with result r.
Finish(c, r) == calls' = [calls EXCEPT ![c].pc = "done", ![c].res = r]

\* A statement of the operation of caller c fails: the error goes to the caller.
StatementFails(c, o) ==
  LET err == StorageError("stmt", o)
  IN calls' = [calls EXCEPT ![c].pc = "done", ![c].res = Threw(err),
                            ![c].faults = @ \cup {err}]

----------------------------------------------------------------------------
(* Profiles: rows and their in-memory form *)

\* A bound parameter: undefined is stored as NULL.
BindParam(x) == IF x.t = "undef" THEN Null ELSE x

\* The destructuring default `= []` of the list-valued fields.
DefaultList(x) == IF x.t = "undef" THEN List(<<>>) ELSE x

\* ProfileParams with two neighbours of the positional parameter list
\* exchanged: kids is written to brothers and brothers to kids.
ProfileParamsExchanged(pd) ==
  [f \in DataFields |->
     IF f = "kids" THEN BindParam(JSONStringify(DefaultList(pd["brothers"])))
     ELSE IF f = "brothers" THEN BindParam(JSONStringify(DefaultList(pd["kids"])))
     ELSE IF f \in ListFields
     THEN BindParam(JSONStringify(DefaultList(pd[f])))
     ELSE BindParam(pd[f])]

\* The data columns that the INSERT and the UPDATE of createOrUpdateProfile
\* write for profileData.
ProfileParams(pd) ==
  [f \in DataFields |->
     IF f \in ListFields
     THEN BindParam(JSONStringify(DefaultList(pd[f])))
     ELSE BindParam(pd[f])]

\* `col ? JSON.parse(col) : []`
ParseList(col) ==
  IF Truthy(col) THEN JSONParse(col) ELSE [ok |-> TRUE, val |-> List(<<>>)]

\* The object getProfileById and getAllProfiles build from a row.
MapProfileRow(id, row) ==
  [f \in ViewFields |->
     IF f = "id" THEN Num(id)
     ELSE IF f \in ListFields THEN ParseList(row[f]).val
     ELSE row[f]]

RowParses(row) == \A f \in ListFields : ParseList(row[f]).ok

Profile(view) == [t |-> "profile", v |-> view]

ProfileList(views) == [t |-> "profiles", v |-> views]

SyntaxError == [src |-> "json", site |-> "parse", msg |-> "syntax"]

\* The mock profiles of web fallback mode; a key the literal does not have
\* is undefined.
MockJohn ==
  [f \in ViewFields |->
     CASE f = "id" -> Num(1)
       [] f = "name" -> Str(<<"John Doe">>)
       [] f = "age" -> Num(30)
       [] f = "phone" -> Str(<<"+1234567890">>)
       [] f = "email" -> Str(<<"john@example.com">>)
       [] f = "relationship" -> Str(<<"Friend">>)
       [] f = "job" -> Str(<<"Software Engineer">>)
       [] f = "notes" -> Str(<<"Met at conference last year">>)
       [] f = "tags" -> List(<<Str(<<"tech">>), Str(<<"colleague">>)>>)
       [] f = "photoUri" -> Null
       [] f = "kids" -> List(<<>>)
       [] f = "siblings" -> List(<<Str(<<"Jane Doe">>)>>)
       [] f = "pets" -> List(<<Str(<<"Max (dog)">>)>>)
       [] f = "foodLikes" -> List(<<Str(<<"pizza">>), Str(<<"sushi">>)>>)
       [] f = "foodDislikes" -> List(<<Str(<<"mushrooms">>)>>)
       [] f = "interests" -> List(<<Str(<<"coding">>), Str(<<"hiking">>)>>)
       [] f = "birthday" -> Str(<<"1994-05-15">>)
       [] f = "lastContactDate" -> Str(<<"2024-01-15">>)
       [] OTHER -> Undefined]

MockSarah ==
  [f \in ViewFields |->
     CASE f = "id" -> Num(2)
       [] f = "name" -> Str(<<"Sarah Smith">>)
       [] f = "age" -> Num(28)
       [] f = "phone" -> Str(<<"+1987654321">>)
       [] f = "email" -> Str(<<"sarah@example.com">>)
       [] f = "relationship" -> Str(<<"Colleague">>)
       [] f = "job" -> Str(<<"Designer">>)
       [] f = "notes" -> Str(<<"Great at UI/UX design">>)
       [] f = "tags" -> List(<<Str(<<"design">>), Str(<<"creative">>)>>)
       [] f = "photoUri" -> Null
       [] f = "kids" -> List(<<>>)
       [] f = "siblings" -> List(<<>>)
       [] f = "pets" -> List(<<Str(<<"Luna (cat)">>)>>)
       [] f = "foodLikes" -> List(<<Str(<<"pasta">>), Str(<<"salads">>)>>)
       [] f = "foodDislikes" -> List(<<Str(<<"spicy food">>)>>)
       [] f = "interests" -> List(<<Str(<<"art">>), Str(<<"photography">>)>>)
       [] f = "birthday" -> Str(<<"1996-03-22">>)
       [] f = "lastContactDate" -> Str(<<"2024-01-10">>)
       [] OTHER -> Undefined]

MockProfiles == <<MockJohn, MockSarah>>

\* mockProfiles.find(profile => profile.id === id) || null
FindMockProfile(id) ==
  IF \E i \in 1..Len(MockProfiles) : MockProfiles[i]["id"] = id
  THEN Profile(MockProfiles[CHOOSE i \in 1..Len(MockProfiles) :
                              /\ MockProfiles[i]["id"] = id
                              /\ \A j \in 1..(i - 1) : MockProfiles[j]["id"] # id])
  ELSE Null

----------------------------------------------------------------------------
(* getProfileById, getAllProfiles *)

ProfileIds == 1..MaxProfiles

\* The ids callers ask for: those of stored profiles and one that never is.
QueryIds == 1..(MaxProfiles + 1)

RECURSIVE MapProfileRows(_)
\* result.map(profile => ...) over the rows in the order of the SELECT.
MapProfileRows(ids) ==
  IF ids = <<>> THEN <<>>
  ELSE <<MapProfileRow(Head(ids), profiles[Head(ids)])>>
         \o MapProfileRows(Tail(ids))

\* What getProfileById(id) returns for the stored rows.
SelectProfile(id) ==
  IF id \notin DOMAIN profiles THEN Returned(Null)
  ELSE IF ~RowParses(profiles[id]) THEN Threw(SyntaxError)
  ELSE Returned(Profile(MapProfileRow(id, profiles[id])))

\* What getAllProfiles() returns for the stored rows.
SelectAllProfiles ==
  IF \E id \in DOMAIN profiles : ~RowParses(profiles[id])
  THEN Threw(SyntaxError)
  ELSE Returned(ProfileList(MapProfileRows(updatedOrder)))

GetProfileById(c) ==
  /\ \E id \in QueryIds : Begin(c, "getProfileById", Num(id))
  /\ UNCHANGED <<platform, uiVars, columns, notifVars, faultsLeft, tableVars, remoteVars>>

\* GetProfileByIdQuery without the test of isWebFallback.
GetProfileByIdQueryAlways(c) ==
  /\ Ready(c)
  /\ calls[c].op = "getProfileById"
  /\ \E o \in StorageOutcomes :
       /\ SpendFault(o)
       /\ IF o = "ok"
          THEN Finish(c, SelectProfile(calls[c].arg.v))
          ELSE StatementFails(c, o)
  /\ UNCHANGED <<platform, uiVars, columns, notifVars, dbVars, tableVars, remoteVars>>

GetProfileByIdQuery(c) ==
  /\ Ready(c)
  /\ calls[c].op = "getProfileById"
  /\ IF isWebFallback
     THEN /\ Finish(c, Returned(FindMockProfile(calls[c].arg)))
          /\ UNCHANGED faultsLeft
     ELSE \E o \in StorageOutcomes :
            /\ SpendFault(o)
            /\ IF o = "ok"
               THEN Finish(c, SelectProfile(calls[c].arg.v))
               ELSE StatementFails(c, o)
  /\ UNCHANGED <<platform, uiVars, columns, notifVars, dbVars, tableVars, remoteVars>>

GetAllProfiles(c) ==
  /\ Begin(c, "getAllProfiles", Undefined)
  /\ UNCHANGED <<platform, uiVars, columns, notifVars, faultsLeft, tableVars, remoteVars>>

GetAllProfilesQuery(c) ==
  /\ Ready(c)
  /\ calls[c].op = "getAllProfiles"
  /\ IF isWebFallback
     THEN /\ Finish(c, Returned(ProfileList(MockProfiles)))
          /\ UNCHANGED faultsLeft
     ELSE \E o \in StorageOutcomes :
            /\ SpendFault(o)
            /\ IF o = "ok"
               THEN Finish(c, SelectAllProfiles)
               ELSE StatementFails(c, o)
  /\ UNCHANGED <<platform, uiVars, columns, notifVars, dbVars, tableVars, remoteVars>>

----------------------------------------------------------------------------
(* createOrUpdateProfile and logProfileDataForCollection *)

RECURSIVE Without(_, _)
Without(seq, x) ==
  IF seq = <<>> THEN <<>>
  ELSE IF Head(seq) = x THEN Without(Tail(seq), x)
  ELSE <<Head(seq)>> \o Without(Tail(seq), x)

\* The row id gets updatedAt = now: it becomes the most recently updated.
Touch(id) == <<id>> \o Without(updatedOrder, id)

\* Another operation rewrote or removed profile id: what a save in flight
\* wrote to it is no longer what is stored.
Overwritten(c, id) ==
  [d \in Callers |->
     IF d # c /\ calls[d].op = "createOrUpdateProfile" /\ calls[d].id = Num(id)
     THEN [calls[d] EXCEPT !.wrote = FALSE]
     ELSE calls[d]]

\* UpdateProfileRow as an update of the fields profileData holds only: a
\* column whose field is absent keeps the value it had.
UpdateProfileRowPresentFields(c, id, pd) ==
  /\ profiles' = IF id \in DOMAIN profiles
                 THEN [profiles EXCEPT ![id] =
                         [f \in DataFields |->
                            IF pd[f] = Undefined THEN profiles[id][f]
                            ELSE ProfileParams(pd)[f]]]
                 ELSE profiles
  /\ updatedOrder' = IF id \in DOMAIN profiles THEN Touch(id) ELSE updatedOrder
  /\ nextId' = nextId
  /\ calls' = [Overwritten(c, id) EXCEPT
                 ![c].pc = "session", ![c].id = Num(id),
                 ![c].wrote = (id \in DOMAIN profiles)]

\* UpdateProfileRow as an upsert: a row is inserted when no row has the id.
UpdateProfileRowOrInsert(c, id, pd) ==
  /\ profiles' = [i \in DOMAIN profiles \cup {id} |->
                    IF i = id THEN ProfileParams(pd) ELSE profiles[i]]
  /\ updatedOrder' = Touch(id)
  /\ nextId' = nextId
  /\ calls' = [Overwritten(c, id) EXCEPT
                 ![c].pc = "session", ![c].id = Num(id), ![c].wrote = TRUE]

\* UPDATE profiles SET ... WHERE id = ?
UpdateProfileRow(c, id, pd) ==
  /\ profiles' = IF id \in DOMAIN profiles
                 THEN [profiles EXCEPT ![id] = ProfileParams(pd)]
                 ELSE profiles
  /\ updatedOrder' = IF id \in DOMAIN profiles THEN Touch(id) ELSE updatedOrder
  /\ nextId' = nextId
  /\ calls' = [Overwritten(c, id) EXCEPT
                 ![c].pc = "session", ![c].id = Num(id),
                 ![c].wrote = (id \in DOMAIN profiles)]

\* INSERT INTO profiles ...; the new row gets result.lastInsertRowId.
InsertProfileRow(c, pd) ==
  LET id == nextId["profiles"]
  IN /\ id <= MaxProfiles
     /\ profiles' = [i \in DOMAIN profiles \cup {id} |->
                       IF i = id THEN ProfileParams(pd) ELSE profiles[i]]
     /\ updatedOrder' = Touch(id)
     /\ nextId' = [nextId EXCEPT !["profiles"] = id + 1]
     /\ calls' = [calls EXCEPT ![c].pc = "session", ![c].id = Num(id),
                               ![c].wrote = TRUE]

\* A caller calls createOrUpdateProfile with one of the given records, with
\* no id (a create) or with the id of a profile (an update).
CreateOrUpdateProfile(c, forms) ==
  /\ \E form \in forms, id \in {Undefined} \cup {Num(k) : k \in ProfileIds} :
       /\ id = Undefined => nextId["profiles"] <= MaxProfiles
       /\ Begin(c, "createOrUpdateProfile", [form EXCEPT !["id"] = id])
  /\ UNCHANGED <<platform, uiVars, columns, notifVars, faultsLeft, tableVars, remoteVars>>

\* The columns that the UPDATE (with an id) and the INSERT (without) name.
WrittenColumns(pd) ==
  DataFields \cup (IF Truthy(pd["id"]) THEN {"updatedAt"}
                   ELSE {"createdAt", "updatedAt"})

\* The local write of createOrUpdateProfile (in web fallback mode: the mock
\* id); logProfileDataForCollection is called next.
WriteProfile(c) ==
  /\ Ready(c)
  /\ calls[c].op = "createOrUpdateProfile"
  /\ LET pd == calls[c].arg
     IN IF isWebFallback
        THEN /\ \E r \in 0..MaxRandom :
                  calls' = [calls EXCEPT
                              ![c].pc = "session",
                              ![c].id = IF Truthy(pd["id"]) THEN pd["id"]
                                        ELSE Num(r + 3)]
             /\ UNCHANGED <<faultsLeft, profiles, updatedOrder, nextId>>
        ELSE \E o \in StorageOutcomes :
               /\ SpendFault(o)
               /\ IF o # "ok"
                  THEN /\ StatementFails(c, o)
                       /\ UNCHANGED <<profiles, updatedOrder, nextId>>
                  ELSE IF ~(WrittenColumns(pd) \subseteq columns)
                  THEN /\ StatementFails(c, "nocolumn")
                       /\ UNCHANGED <<profiles, updatedOrder, nextId>>
                  ELSE IF Truthy(pd["id"])
                       THEN UpdateProfileRow(c, pd["id"].v, pd)
                       ELSE InsertProfileRow(c, pd)
  /\ UNCHANGED <<platform, uiVars, columns, notifVars, dbVars, reminders, interactions, lifeEvents,
                 feedback, remoteVars>>

\* SessionHasUser without the test.
SessionAlwaysHasUser(s) == TRUE

\* `if (!session?.user?.id) return`
SessionHasUser(s) == s = "user"

RemoteError == [src |-> "remote", site |-> "collect", msg |-> "failed"]

\* AfterRemoteFailure without the try/catch of logProfileDataForCollection.
AfterRemoteFailureThrows(id) == Threw(RemoteError)

\* What createOrUpdateProfile returns once logProfileDataForCollection has
\* caught and logged a failure of the remote step.
AfterRemoteFailure(id) == Returned(id)

\* logProfileDataForCollection ends for caller c with the given outcome and
\* createOrUpdateProfile returns the id.
LogEnds(c, outcome) ==
  calls' = [calls EXCEPT
              ![c].pc = "done", ![c].remote = outcome,
              ![c].res = IF outcome = "threw"
                         THEN AfterRemoteFailure(calls[c].id)
                         ELSE Returned(calls[c].id)]

\* await AuthService.getSession() settles.
GetSession(c) ==
  /\ calls[c].pc = "session"
  /\ \E o \in {"ok", "throw"} :
       IF o = "throw" THEN LogEnds(c, "threw")
       ELSE IF ~SessionHasUser(session) THEN LogEnds(c, "nosession")
       ELSE calls' = [calls EXCEPT ![c].pc = "authInit", ![c].user = session]
  /\ UNCHANGED <<platform, uiVars, columns, notifVars, dbVars, faultsLeft, tableVars, remoteVars>>

\* await AuthService.init() settles; then `if (!supabase) return`.
AuthInit(c) ==
  /\ calls[c].pc = "authInit"
  /\ \E o \in {"ok", "throw"} :
       IF o = "throw" THEN LogEnds(c, "threw")
       ELSE IF ~remoteClient THEN LogEnds(c, "noclient")
       ELSE calls' = [calls EXCEPT ![c].pc = "insert"]
  /\ UNCHANGED <<platform, uiVars, columns, notifVars, dbVars, faultsLeft, tableVars, remoteVars>>

\* The row logProfileDataForCollection sends.
CollectionData(c) ==
  [user_id |-> calls[c].user,
   operation_type |-> IF Truthy(calls[c].arg["id"]) THEN "update" ELSE "create",
   profile_id |-> calls[c].id]

\* await supabase.from('collected_profiles_data').insert(...) settles: the
\* row is stored, or an error is returned, or the call throws.
RemoteInsert(c) ==
  /\ calls[c].pc = "insert"
  /\ \E o \in {"ok", "error", "throw"} :
       /\ remoteProfiles' = IF o = "ok"
                            THEN remoteProfiles \cup {CollectionData(c)}
                            ELSE remoteProfiles
       /\ LogEnds(c, IF o = "ok" THEN "sent"
                     ELSE IF o = "error" THEN "rejected" ELSE "threw")
  /\ UNCHANGED <<platform, uiVars, columns, notifVars, dbVars, faultsLeft, tableVars, session,
                 everSignedIn, remoteClient, remoteFeedback>>

----------------------------------------------------------------------------
(* createReminder, addInteraction, addLifeEvent *)

\* The profileId a caller passes: none, or the id of a profile.
ProfileRefs == {Null} \cup {Num(k) : k \in ProfileIds}

\* Math.floor(Math.random() * 1000) + 1, the id of a simulated insert.
SimulatedIds == {Num(r + 1) : r \in 0..MaxRandom}

\* `type = 'general'` and the like: the destructuring default of a field.
DefaultTo(x, d) == IF x.t = "undef" THEN d ELSE x

ReminderRow(id, data) ==
  [id |-> id,
   profileId |-> BindParam(data.profileId),
   title |-> BindParam(data.title),
   description |-> BindParam(data.description),
   type |-> BindParam(DefaultTo(data.type, Str(<<"general">>))),
   scheduledFor |-> BindParam(data.scheduledFor),
   completed |-> Num(0),
   completedAt |-> Null,
   notificationId |-> Null]

InteractionRow(id, data) ==
  [id |-> id,
   profileId |-> BindParam(data.profileId),
   description |-> BindParam(data.description),
   extractedData |-> BindParam(data.extractedData),
   type |-> BindParam(DefaultTo(data.type, Str(<<"conversation">>))),
   location |-> BindParam(data.location)]

LifeEventRow(id, data) ==
  [id |-> id,
   profileId |-> BindParam(data.profileId),
   eventType |-> BindParam(data.eventType),
   description |-> BindParam(data.description),
   eventDate |-> BindParam(data.eventDate),
   importance |-> BindParam(DefaultTo(data.importance, Num(1)))]

\* The body shared by the operations that insert one row into a table of
\* dependents: simulated in web fallback mode, else one INSERT whose
\* lastInsertRowId is returned.
InsertInto(c, table) ==
  IF isWebFallback
  THEN /\ \E id \in SimulatedIds : Finish(c, Returned(id))
       /\ UNCHANGED <<faultsLeft, nextId, reminders, interactions, lifeEvents>>
  ELSE \E o \in StorageOutcomes :
         /\ SpendFault(o)
         /\ IF o # "ok"
            THEN /\ StatementFails(c, o)
                 /\ UNCHANGED <<nextId, reminders, interactions, lifeEvents>>
            ELSE LET id == nextId[table]
                 IN /\ id <= MaxDependents
                    /\ nextId' = [nextId EXCEPT ![table] = id + 1]
                    /\ reminders' =
                         IF table = "reminders"
                         THEN reminders \cup {ReminderRow(id, calls[c].arg)}
                         ELSE reminders
                    /\ interactions' =
                         IF table = "interactions"
                         THEN interactions \cup {InteractionRow(id, calls[c].arg)}
                         ELSE interactions
                    /\ lifeEvents' =
                         IF table = "life_events"
                         THEN lifeEvents \cup {LifeEventRow(id, calls[c].arg)}
                         ELSE lifeEvents
                    /\ Finish(c, Returned(Num(id)))

CreateReminder(c) ==
  /\ nextId["reminders"] <= MaxDependents
  /\ \E ref \in ProfileRefs :
       Begin(c, "createReminder",
             [profileId |-> ref, title |-> Str(<<"Call">>),
              description |-> Undefined, type |-> Undefined,
              scheduledFor |-> Str(<<"2024-02-01T09", ":", "00", ":", "00.000Z">>)])
  /\ UNCHANGED <<platform, uiVars, columns, notifVars, faultsLeft, tableVars, remoteVars>>

CreateReminderInsert(c) ==
  /\ Ready(c)
  /\ calls[c].op = "createReminder"
  /\ InsertInto(c, "reminders")
  /\ UNCHANGED <<platform, uiVars, columns, notifVars, dbVars, profiles, updatedOrder, feedback, remoteVars>>

AddInteraction(c) ==
  /\ nextId["interactions"] <= MaxDependents
  /\ \E ref \in ProfileRefs :
       Begin(c, "addInteraction",
             [profileId |-> ref, description |-> Str(<<"Lunch">>),
              extractedData |-> Undefined, type |-> Undefined,
              location |-> Undefined])
  /\ UNCHANGED <<platform, uiVars, columns, notifVars, faultsLeft, tableVars, remoteVars>>

AddInteractionInsert(c) ==
  /\ Ready(c)
  /\ calls[c].op = "addInteraction"
  /\ InsertInto(c, "interactions")
  /\ UNCHANGED <<platform, uiVars, columns, notifVars, dbVars, profiles, updatedOrder, feedback, remoteVars>>

AddLifeEvent(c) ==
  /\ nextId["life_events"] <= MaxDependents
  /\ \E ref \in ProfileRefs :
       Begin(c, "addLifeEvent",
             [profileId |-> ref, eventType |-> Str(<<"wedding">>),
              description |-> Undefined, eventDate |-> Undefined,
              importance |-> Undefined])
  /\ UNCHANGED <<platform, uiVars, columns, notifVars, faultsLeft, tableVars, remoteVars>>

AddLifeEventInsert(c) ==
  /\ Ready(c)
  /\ calls[c].op = "addLifeEvent"
  /\ InsertInto(c, "life_events")
  /\ UNCHANGED <<platform, uiVars, columns, notifVars, dbVars, profiles, updatedOrder, feedback, remoteVars>>

----------------------------------------------------------------------------
(* completeReminder, snoozeReminder, updateReminderNotificationId,
   updateReminder, deleteReminder *)

\* The reminder ids a caller passes.
ReminderIds == 1..MaxDependents

\* new Date().toISOString(): a text that no operation reads back.
NowIso == Str(<<"now">>)

\* A later time, as snoozeReminder and updateReminder are handed it.
LaterTime == Str(<<"2024-03-01T09", ":", "00", ":", "00.000Z">>)

\* The rows after `UPDATE reminders SET ... WHERE id = ?`, where Set(r) is
\* row r with the SET clause applied.
UpdateWhereId(rows, id, Set(_)) ==
  {IF Num(r.id) = id THEN Set(r) ELSE r : r \in rows}

\* The body shared by the operations that run one statement on the reminders
\* table and return nothing: simulated in web fallback mode.
RunOnReminders(c, rows) ==
  IF isWebFallback
  THEN /\ Finish(c, Returned(Undefined))
       /\ UNCHANGED <<faultsLeft, reminders>>
  ELSE \E o \in StorageOutcomes :
         /\ SpendFault(o)
         /\ IF o # "ok"
            THEN StatementFails(c, o) /\ UNCHANGED reminders
            ELSE reminders' = rows /\ Finish(c, Returned(Undefined))

\* What the reminder operations leave alone.
ReminderFrame ==
  UNCHANGED <<platform, uiVars, columns, notifVars, dbVars, profiles, updatedOrder, nextId,
              interactions, lifeEvents, feedback, remoteVars>>

CompleteReminder(c) ==
  /\ \E id \in ReminderIds : Begin(c, "completeReminder", Num(id))
  /\ UNCHANGED <<platform, uiVars, columns, notifVars, faultsLeft, tableVars, remoteVars>>

\* UPDATE reminders SET completed = 1, completedAt = ? WHERE id = ?
CompleteReminderUpdate(c) ==
  /\ Ready(c)
  /\ calls[c].op = "completeReminder"
  /\ LET Set(r) == [r EXCEPT !.completed = Num(1), !.completedAt = NowIso]
     IN RunOnReminders(c, UpdateWhereId(reminders, calls[c].arg, Set))
  /\ ReminderFrame

SnoozeReminder(c) ==
  /\ \E id \in ReminderIds :
       Begin(c, "snoozeReminder", [id |-> Num(id), newDate |-> LaterTime])
  /\ UNCHANGED <<platform, uiVars, columns, notifVars, faultsLeft, tableVars, remoteVars>>

\* SnoozeReminderUpdate as a snooze that also reopens the reminder.
SnoozeReminderReopens(c) ==
  /\ Ready(c)
  /\ calls[c].op = "snoozeReminder"
  /\ LET Set(r) == [r EXCEPT !.scheduledFor = BindParam(calls[c].arg.newDate),
                             !.completed = Num(0)]
     IN RunOnReminders(c, UpdateWhereId(reminders, calls[c].arg.id, Set))
  /\ ReminderFrame

\* UPDATE reminders SET scheduledFor = ? WHERE id = ?
SnoozeReminderUpdate(c) ==
  /\ Ready(c)
  /\ calls[c].op = "snoozeReminder"
  /\ LET Set(r) == [r EXCEPT !.scheduledFor = BindParam(calls[c].arg.newDate)]
     IN RunOnReminders(c, UpdateWhereId(reminders, calls[c].arg.id, Set))
  /\ ReminderFrame

UpdateReminderNotificationId(c) ==
  /\ \E id \in ReminderIds, handle \in {Null, Str(<<"notification-1">>)} :
       Begin(c, "updateReminderNotificationId",
             [id |-> Num(id), notificationId |-> handle])
  /\ UNCHANGED <<platform, uiVars, columns, notifVars, faultsLeft, tableVars, remoteVars>>

\* UPDATE reminders SET notificationId = ? WHERE id = ?
UpdateReminderNotificationIdUpdate(c) ==
  /\ Ready(c)
  /\ calls[c].op = "updateReminderNotificationId"
  /\ LET Set(r) ==
           [r EXCEPT !.notificationId = BindParam(calls[c].arg.notificationId)]
     IN RunOnReminders(c, UpdateWhereId(reminders, calls[c].arg.id, Set))
  /\ ReminderFrame

UpdateReminder(c) ==
  /\ \E id \in ReminderIds, time \in {LaterTime, Undefined} :
       Begin(c, "updateReminder",
             [id |-> Num(id), title |-> Str(<<"Call", " ", "back">>),
              description |-> Undefined, type |-> Str(<<"followup">>),
              profileId |-> Num(1), scheduledFor |-> time])
  /\ UNCHANGED <<platform, uiVars, columns, notifVars, faultsLeft, tableVars, remoteVars>>

\* UPDATE reminders SET title = ?, description = ?, type = ?, profileId = ?,
\* scheduledFor = ? WHERE id = ?
UpdateReminderUpdate(c) ==
  /\ Ready(c)
  /\ calls[c].op = "updateReminder"
  /\ LET data == calls[c].arg
         Set(r) == [r EXCEPT !.title = BindParam(data.title),
                             !.description = BindParam(data.description),
                             !.type = BindParam(data.type),
                             !.profileId = BindParam(data.profileId),
                             !.scheduledFor = BindParam(data.scheduledFor)]
     IN RunOnReminders(c, UpdateWhereId(reminders, data.id, Set))
  /\ ReminderFrame

DeleteReminder(c) ==
  /\ \E id \in ReminderIds : Begin(c, "deleteReminder", Num(id))
  /\ UNCHANGED <<platform, uiVars, columns, notifVars, faultsLeft, tableVars, remoteVars>>

\* DeleteReminderDelete that also cancels the notification of the reminder
\* it deletes.
DeleteReminderDeleteCancelling(c) ==
  /\ Ready(c)
  /\ calls[c].op = "deleteReminder"
  /\ RunOnReminders(c, {r \in reminders : Num(r.id) # calls[c].arg})
  /\ scheduled' =
       {n \in scheduled :
          \A r \in reminders \ reminders' :
            r.notificationId # Str(<<"notification-" \o ToString(n.id)>>)}
  /\ UNCHANGED <<platform, uiVars, columns, dbVars, profiles, updatedOrder, nextId,
                 interactions, lifeEvents, feedback, remoteVars,
                 isInitialized, permission, clock, nextNotification, ncalls>>

\* DELETE FROM reminders WHERE id = ?
DeleteReminderDelete(c) ==
  /\ Ready(c)
  /\ calls[c].op = "deleteReminder"
  /\ RunOnReminders(c, {r \in reminders : Num(r.id) # calls[c].arg})
  /\ ReminderFrame

----------------------------------------------------------------------------
(* deleteProfile *)

\* DeleteWhereProfileId with the row's own id compared instead of profileId.
DeleteWhereRowId(rows, id) == {r \in rows : Num(r.id) # id}

\* The rows a `DELETE FROM t WHERE profileId = ?` leaves in table t.
DeleteWhereProfileId(rows, id) == {r \in rows : r.profileId # id}

\* `DELETE FROM profiles WHERE id = ?`
DeleteProfileRow(id) ==
  [i \in DOMAIN profiles \ {id} |-> profiles[i]]

\* The tables the statements of deleteProfile delete from, with the profile
\* first.
DeleteOrderProfileFirst ==
  <<"profiles", "reminders", "interactions", "life_events">>

\* The tables the statements of deleteProfile delete from, in their order.
DeleteOrder == <<"reminders", "interactions", "life_events", "profiles">>

\* The statements of deleteProfile in the order the code runs them, each
\* with the position the call reaches after it.
DeleteSteps ==
  <<[at |-> "awaitReady", then |-> "delInteractions"],
    [at |-> "delInteractions", then |-> "delLifeEvents"],
    [at |-> "delLifeEvents", then |-> "delProfile"],
    [at |-> "delProfile", then |-> "done"]>>

DeleteProfile(c) ==
  /\ \E id \in ProfileIds : Begin(c, "deleteProfile", Num(id))
  /\ UNCHANGED <<platform, uiVars, columns, notifVars, faultsLeft, tableVars, remoteVars>>

\* One awaited statement of deleteProfile (in web fallback mode: the return
\* of the simulated operation).
DeleteProfileStep(c, n) ==
  /\ calls[c].op = "deleteProfile"
  /\ calls[c].pc = DeleteSteps[n].at
  /\ n = 1 => Ready(c)
  /\ LET id == calls[c].arg
     IN IF isWebFallback
        THEN /\ Finish(c, Returned(Undefined))
             /\ UNCHANGED <<faultsLeft, tableVars>>
        ELSE \E o \in StorageOutcomes :
               /\ SpendFault(o)
               /\ IF o # "ok"
                  THEN /\ StatementFails(c, o)
                       /\ UNCHANGED tableVars
                  ELSE /\ reminders' = IF DeleteOrder[n] = "reminders"
                                       THEN DeleteWhereProfileId(reminders, id)
                                       ELSE reminders
                       /\ interactions' = IF DeleteOrder[n] = "interactions"
                                          THEN DeleteWhereProfileId(interactions, id)
                                          ELSE interactions
                       /\ lifeEvents' = IF DeleteOrder[n] = "life_events"
                                        THEN DeleteWhereProfileId(lifeEvents, id)
                                        ELSE lifeEvents
                       /\ profiles' = IF DeleteOrder[n] = "profiles"
                                      THEN DeleteProfileRow(id.v)
                                      ELSE profiles
                       /\ updatedOrder' = IF DeleteOrder[n] = "profiles"
                                          THEN Without(updatedOrder, id.v)
                                          ELSE updatedOrder
                       /\ UNCHANGED <<nextId, feedback>>
                       /\ calls' =
                            [(IF DeleteOrder[n] = "profiles"
                              THEN Overwritten(c, id.v) ELSE calls)
                               EXCEPT ![c].pc = DeleteSteps[n].then,
                                      ![c].res = IF n = 4 THEN Returned(Undefined)
                                                 ELSE NoResult]
  /\ UNCHANGED <<platform, uiVars, columns, notifVars, dbVars, remoteVars>>

----------------------------------------------------------------------------
(* submitFeedback *)

\* this.supabase of DatabaseServiceClass: the class declares db, readyPromise
\* and isWebFallback only, and nothing assigns this.supabase.
DatabaseServiceSupabase == Undefined

FeedbackRow(id, data) ==
  [id |-> id,
   type |-> BindParam(data.type),
   subject |-> BindParam(data.subject),
   message |-> BindParam(data.message),
   userEmail |-> BindParam(data.userEmail),
   deviceInfo |-> BindParam(data.deviceInfo),
   appVersion |-> BindParam(data.appVersion),
   status |-> Str(<<"open">>)]

\* The fallback of submitFeedback: simulated in web fallback mode, else an
\* INSERT into the local feedback table.
StoreFeedbackLocally(c, remote) ==
  IF isWebFallback
  THEN /\ \E id \in SimulatedIds :
            calls' = [calls EXCEPT ![c].pc = "done", ![c].remote = remote,
                                   ![c].res = Returned(id)]
       /\ UNCHANGED <<faultsLeft, nextId, feedback>>
  ELSE \E o \in StorageOutcomes :
         /\ SpendFault(o)
         /\ IF o # "ok"
            THEN /\ calls' = [calls EXCEPT
                                ![c].pc = "done", ![c].remote = remote,
                                ![c].res = Threw(StorageError("stmt", o)),
                                ![c].faults = @ \cup {StorageError("stmt", o)}]
                 /\ UNCHANGED <<nextId, feedback>>
            ELSE LET id == nextId["feedback"]
                 IN /\ id <= MaxDependents
                    /\ nextId' = [nextId EXCEPT !["feedback"] = id + 1]
                    /\ feedback' = feedback \cup {FeedbackRow(id, calls[c].arg)}
                    /\ calls' = [calls EXCEPT
                                   ![c].pc = "done", ![c].remote = remote,
                                   ![c].res = Returned(Num(id))]

SubmitFeedback(c) ==
  /\ nextId["feedback"] <= MaxDependents
  /\ Begin(c, "submitFeedback",
           [type |-> Str(<<"bug">>), subject |-> Str(<<"Crash">>),
            message |-> Str(<<"It", " ", "crashes">>),
            userEmail |-> Undefined, deviceInfo |-> Undefined,
            appVersion |-> Str(<<"1.0.0">>)])
  /\ UNCHANGED <<platform, uiVars, columns, notifVars, faultsLeft, tableVars, remoteVars>>

\* The body of submitFeedback after ensureReady: the remote insert when
\* this.supabase is set, and the local store when it is not or when the
\* remote insert fails.
SubmitFeedbackStore(c) ==
  /\ Ready(c)
  /\ calls[c].op = "submitFeedback"
  /\ IF Truthy(DatabaseServiceSupabase)
     THEN \E o \in {"ok", "error", "throw"} :
            IF o = "ok"
            THEN /\ remoteFeedback' =
                      remoteFeedback \cup {FeedbackRow(0, calls[c].arg)}
                 /\ calls' = [calls EXCEPT ![c].pc = "done", ![c].remote = "sent",
                                           ![c].res = Returned(Num(0))]
                 /\ UNCHANGED <<faultsLeft, nextId, feedback>>
            ELSE /\ remoteFeedback' = remoteFeedback
                 /\ StoreFeedbackLocally(c, IF o = "error" THEN "rejected"
                                            ELSE "threw")
     ELSE /\ remoteFeedback' = remoteFeedback
          /\ StoreFeedbackLocally(c, "none")
  /\ UNCHANGED <<platform, uiVars, columns, notifVars, dbVars, profiles, updatedOrder, reminders,
                 interactions, lifeEvents, session, everSignedIn, remoteClient,
                 remoteProfiles>>

----------------------------------------------------------------------------
(* updateFeedbackStatus, clearAllData *)

\* The feedback ids a caller passes.
FeedbackIds == 1..MaxDependents

UpdateFeedbackStatus(c) ==
  /\ \E id \in FeedbackIds :
       Begin(c, "updateFeedbackStatus",
             [id |-> Num(id), status |-> Str(<<"resolved">>)])
  /\ UNCHANGED <<platform, uiVars, columns, notifVars, faultsLeft, tableVars, remoteVars>>

\* UpdateFeedbackStatusUpdate as an update that writes the subject too.
UpdateFeedbackStatusAndSubject(c) ==
  /\ Ready(c)
  /\ calls[c].op = "updateFeedbackStatus"
  /\ IF isWebFallback
     THEN Finish(c, Returned(Undefined)) /\ UNCHANGED <<faultsLeft, feedback>>
     ELSE \E o \in StorageOutcomes :
            /\ SpendFault(o)
            /\ IF o # "ok"
               THEN StatementFails(c, o) /\ UNCHANGED feedback
               ELSE /\ feedback' =
                         {IF Num(r.id) = calls[c].arg.id
                          THEN [r EXCEPT !.status = calls[c].arg.status,
                                         !.subject = calls[c].arg.status]
                          ELSE r : r \in feedback}
                    /\ Finish(c, Returned(Undefined))
  /\ UNCHANGED <<platform, uiVars, columns, notifVars, dbVars, profiles, updatedOrder, nextId,
                 reminders, interactions, lifeEvents, remoteVars>>

\* The body of updateFeedbackStatus after ensureReady; this.supabase is not
\* set, so it is the local path: simulated in web fallback mode, else
\* UPDATE feedback SET status = ? WHERE id = ?
UpdateFeedbackStatusUpdate(c) ==
  /\ Ready(c)
  /\ calls[c].op = "updateFeedbackStatus"
  /\ ~Truthy(DatabaseServiceSupabase)
  /\ IF isWebFallback
     THEN Finish(c, Returned(Undefined)) /\ UNCHANGED <<faultsLeft, feedback>>
     ELSE \E o \in StorageOutcomes :
            /\ SpendFault(o)
            /\ IF o # "ok"
               THEN StatementFails(c, o) /\ UNCHANGED feedback
               ELSE /\ feedback' =
                         {IF Num(r.id) = calls[c].arg.id
                          THEN [r EXCEPT !.status = BindParam(calls[c].arg.status)]
                          ELSE r : r \in feedback}
                    /\ Finish(c, Returned(Undefined))
  /\ UNCHANGED <<platform, uiVars, columns, notifVars, dbVars, profiles, updatedOrder, nextId,
                 reminders, interactions, lifeEvents, remoteVars>>

\* The tables clearAllData drops and createTables creates again.
ClearedTables == {"life_events", "reminders", "interactions", "profiles"}

ClearAllData(c) ==
  /\ Begin(c, "clearAllData", Undefined)
  /\ UNCHANGED <<platform, uiVars, columns, notifVars, faultsLeft, tableVars, remoteVars>>

\* DROP TABLE IF EXISTS life_events; ... reminders; ... interactions; ...
\* profiles: the rows go, and with them the AUTOINCREMENT counters.
ClearAllDataDrop(c) ==
  /\ Ready(c)
  /\ calls[c].op = "clearAllData"
  /\ IF isWebFallback
     THEN /\ Finish(c, Returned(Undefined))
          /\ UNCHANGED <<faultsLeft, tableVars>>
     ELSE \E o \in StorageOutcomes :
            /\ SpendFault(o)
            /\ IF o # "ok"
               THEN StatementFails(c, o) /\ UNCHANGED tableVars
               ELSE /\ profiles' = <<>>
                    /\ updatedOrder' = <<>>
                    /\ reminders' = {}
                    /\ interactions' = {}
                    /\ lifeEvents' = {}
                    /\ nextId' = [t \in DOMAIN nextId |->
                                    IF t \in ClearedTables THEN 1 ELSE nextId[t]]
                    /\ feedback' = feedback
                    /\ calls' = [calls EXCEPT ![c].pc = "createTables"]
  /\ columns' = IF isWebFallback \/ calls'[c].pc = "done" THEN columns ELSE {}
  /\ UNCHANGED <<platform, uiVars, notifVars, dbVars, remoteVars>>

\* await this.createTables(), the last statement of clearAllData.
ClearAllDataCreateTables(c) ==
  /\ calls[c].op = "clearAllData"
  /\ calls[c].pc = "createTables"
  /\ \E o \in StorageOutcomes :
       /\ SpendFault(o)
       /\ calls' = [calls EXCEPT
                      ![c].pc = "done",
                      ![c].res = IF o = "ok" THEN Returned(Undefined)
                                 ELSE Threw(StorageError("create", o)),
                      ![c].faults = IF o = "ok" THEN @
                                    ELSE @ \cup {StorageError("create", o)}]
       /\ columns' = IF o = "ok" THEN AllColumns ELSE columns
  /\ UNCHANGED <<platform, uiVars, notifVars, dbVars, tableVars, remoteVars>>

----------------------------------------------------------------------------
(* The user signs in and out (AuthService) *)

SignIn ==
  /\ session = "none"
  /\ session' = "user"
  /\ everSignedIn' = TRUE
  /\ UNCHANGED <<platform, uiVars, columns, notifVars, dbVars, faultsLeft, tableVars, remoteClient,
                 remoteProfiles, remoteFeedback, calls>>

SignOut ==
  /\ session = "user"
  /\ session' = "none"
  /\ UNCHANGED <<platform, uiVars, columns, notifVars, dbVars, faultsLeft, tableVars, everSignedIn,
                 remoteClient, remoteProfiles, remoteFeedback, calls>>

----------------------------------------------------------------------------
(* NotificationService *)

\* const minimumBufferMs = 5000
minimumBufferMs == 5000

\* The clock advances by TickMs at a time, up to MaxTicks times.
TickMs == 2500

MaxTicks == 2

\* Notifications the OS accepts in one run.
MaxNotifications == 2

\* The times a caller asks a reminder to be scheduled for.
ScheduleTimes == {k * TickMs : k \in 0..(MaxTicks + 3)}

NotInitializedError ==
  [src |-> "notifications", site |-> "schedule",
   msg |-> "Notifications not initialized"]

OsError(site) == [src |-> "os", site |-> site, msg |-> "rejected"]

IdleNotification ==
  [op |-> "none", pc |-> "idle", arg |-> 0, date |-> 0, now |-> 0,
   res |-> NoResult, initResult |-> Undefined, trigger |-> 0,
   osCalled |-> FALSE, finalStatus |-> "none"]

\* IsPast with < for <=.
IsPastStrict(date, now) == date < now

\* `scheduledDate <= now`
IsPast(date, now) == date <= now

\* TriggerTime without the buffer.
TriggerTimeUnpadded(date, now) == date

\* The time of the trigger: the scheduled date, set to now + minimumBufferMs
\* when it is less than minimumBufferMs away.
TriggerTime(date, now) ==
  IF date - now < minimumBufferMs THEN now + minimumBufferMs ELSE date

\* ScheduleBody padding a copy of the date: the date of the caller is left
\* as it is.
ScheduleBodyOnCopy(call) ==
  IF IsPast(call.date, clock)
  THEN [call EXCEPT !.pc = "done", !.now = clock, !.res = Returned(Null)]
  ELSE [call EXCEPT !.pc = "osSchedule", !.now = clock,
                    !.trigger = TriggerTime(call.date, clock)]

\* scheduleReminderNotification from `const scheduledDate = ...` up to the
\* await of Notifications.scheduleNotificationAsync, run at the current time.
ScheduleBody(call) ==
  IF IsPast(call.date, clock)
  THEN [call EXCEPT !.pc = "done", !.now = clock, !.res = Returned(Null)]
  ELSE [call EXCEPT !.pc = "osSchedule", !.now = clock,
                    !.date = TriggerTime(call.date, clock),
                    !.trigger = TriggerTime(call.date, clock)]

\* InitReturns without the test of what init() returned.
InitReturnsUntested(call, r) ==
  IF call.op = "init"
  THEN [call EXCEPT !.pc = "done", !.initResult = r, !.res = Returned(r)]
  ELSE ScheduleBody([call EXCEPT !.initResult = r])

\* init() returns r to the operation that called it: to the caller itself,
\* or to scheduleReminderNotification, which throws unless r is truthy.
InitReturns(call, r) ==
  IF call.op = "init"
  THEN [call EXCEPT !.pc = "done", !.initResult = r, !.res = Returned(r)]
  ELSE IF ~Truthy(r)
  THEN [call EXCEPT !.pc = "done", !.initResult = r,
                    !.res = Threw(NotInitializedError)]
  ELSE ScheduleBody([call EXCEPT !.initResult = r])

\* init() up to its first await, called by c.
InitCalled(c) ==
  ncalls' = [ncalls EXCEPT ![c] =
               IF isInitialized
               THEN [IdleNotification EXCEPT
                       !.op = "init", !.pc = "done",
                       !.res = Returned(Undefined)]
               ELSE [IdleNotification EXCEPT
                       !.op = "init", !.pc = "getPermissions"]]

\* A caller calls NotificationService.init().
NotificationInit(c) ==
  /\ ncalls[c].pc \in {"idle", "done"}
  /\ InitCalled(c)
  /\ UNCHANGED <<platform, uiVars, columns, dbVars, faultsLeft, tableVars, remoteVars, calls,
                 isInitialized, permission, clock, scheduled, nextNotification>>

\* A caller calls scheduleReminderNotification(reminder).
ScheduleReminderNotification(c) ==
  /\ ncalls[c].pc \in {"idle", "done"}
  /\ nextNotification <= MaxNotifications
  /\ \E date \in ScheduleTimes :
       LET call == [IdleNotification EXCEPT
                      !.op = "schedule", !.arg = date, !.date = date]
       IN ncalls' = [ncalls EXCEPT ![c] =
                       IF isInitialized THEN ScheduleBody(call)
                       ELSE [call EXCEPT !.pc = "getPermissions"]]
  /\ UNCHANGED <<platform, uiVars, columns, dbVars, faultsLeft, tableVars, remoteVars, calls,
                 isInitialized, permission, clock, scheduled, nextNotification>>

\* await Notifications.getPermissionsAsync() settles.
GetPermissions(c) ==
  /\ ncalls[c].pc = "getPermissions"
  /\ \E o \in {"ok", "throw"} :
       LET call == [ncalls[c] EXCEPT !.finalStatus = permission]
       IN ncalls' = [ncalls EXCEPT ![c] =
                       IF o = "throw" THEN InitReturns(@, Bool(FALSE))
                       ELSE IF permission # "granted"
                       THEN [call EXCEPT !.pc = "requestPermissions"]
                       ELSE IF platform = "android"
                       THEN [call EXCEPT !.pc = "setChannel"]
                       ELSE InitReturns(call, Bool(TRUE))]
  /\ isInitialized' = (isInitialized \/ ncalls'[c].initResult = Bool(TRUE))
  /\ UNCHANGED <<platform, uiVars, columns, dbVars, faultsLeft, tableVars, remoteVars, calls,
                 permission, clock, scheduled, nextNotification>>

\* await Notifications.requestPermissionsAsync() settles with the answer of
\* the user.
RequestPermissions(c) ==
  /\ ncalls[c].pc = "requestPermissions"
  /\ \E o \in {"granted", "denied", "throw"} :
       /\ permission' = IF o = "throw" THEN permission ELSE o
       /\ LET call == [ncalls[c] EXCEPT
                          !.finalStatus = IF o = "throw" THEN @ ELSE o]
          IN ncalls' = [ncalls EXCEPT ![c] =
                          IF o # "granted" THEN InitReturns(call, Bool(FALSE))
                          ELSE IF platform = "android"
                          THEN [call EXCEPT !.pc = "setChannel"]
                          ELSE InitReturns(call, Bool(TRUE))]
  /\ isInitialized' = (isInitialized \/ ncalls'[c].initResult = Bool(TRUE))
  /\ UNCHANGED <<platform, uiVars, columns, dbVars, faultsLeft, tableVars, remoteVars, calls,
                 clock, scheduled, nextNotification>>

\* await Notifications.setNotificationChannelAsync(...) settles (Android).
SetNotificationChannel(c) ==
  /\ ncalls[c].pc = "setChannel"
  /\ \E o \in {"ok", "throw"} :
       ncalls' = [ncalls EXCEPT ![c] =
                    InitReturns(@, Bool(o = "ok"))]
  /\ isInitialized' = (isInitialized \/ ncalls'[c].initResult = Bool(TRUE))
  /\ UNCHANGED <<platform, uiVars, columns, dbVars, faultsLeft, tableVars, remoteVars, calls,
                 permission, clock, scheduled, nextNotification>>

\* await Notifications.scheduleNotificationAsync(...) settles.
OsSchedule(c) ==
  /\ ncalls[c].pc = "osSchedule"
  /\ \E o \in {"ok", "throw"} :
       IF o = "ok"
       THEN /\ scheduled' = scheduled \cup
                 {[id |-> nextNotification, trigger |-> ncalls[c].trigger]}
            /\ nextNotification' = nextNotification + 1
            /\ ncalls' = [ncalls EXCEPT
                            ![c].pc = "listScheduled", ![c].osCalled = TRUE,
                            ![c].res = Returned(Num(nextNotification))]
       ELSE /\ UNCHANGED <<scheduled, nextNotification>>
            /\ ncalls' = [ncalls EXCEPT
                            ![c].pc = "done", ![c].osCalled = TRUE,
                            ![c].res = Threw(OsError("schedule"))]
  /\ UNCHANGED <<platform, uiVars, columns, dbVars, faultsLeft, tableVars, remoteVars, calls,
                 isInitialized, permission, clock>>

\* await Notifications.getAllScheduledNotificationsAsync() settles; then
\* the notification id is returned.
ListScheduled(c) ==
  /\ ncalls[c].pc = "listScheduled"
  /\ \E o \in {"ok", "throw"} :
       ncalls' = [ncalls EXCEPT
                    ![c].pc = "done",
                    ![c].res = IF o = "ok" THEN @ ELSE Threw(OsError("list"))]
  /\ UNCHANGED <<platform, uiVars, columns, dbVars, faultsLeft, tableVars, remoteVars, calls,
                 isInitialized, permission, clock, scheduled, nextNotification>>

\* The identifier the OS gives notification k, as a reminder stores it.
NotificationHandle(k) == Str(<<"notification-" \o ToString(k)>>)

\* A caller calls cancelNotification(notificationId).
CancelNotification(c) ==
  /\ ncalls[c].pc \in {"idle", "done"}
  /\ \E k \in 1..MaxNotifications :
       ncalls' = [ncalls EXCEPT ![c] =
                    [IdleNotification EXCEPT
                       !.op = "cancel", !.pc = "osCancel", !.arg = k]]
  /\ UNCHANGED <<platform, uiVars, columns, dbVars, faultsLeft, tableVars, remoteVars, calls,
                 isInitialized, permission, clock, scheduled, nextNotification>>

\* A caller calls cancelAllNotifications().
CancelAllNotifications(c) ==
  /\ ncalls[c].pc \in {"idle", "done"}
  /\ ncalls' = [ncalls EXCEPT ![c] =
                  [IdleNotification EXCEPT !.op = "cancelAll", !.pc = "osCancel"]]
  /\ UNCHANGED <<platform, uiVars, columns, dbVars, faultsLeft, tableVars, remoteVars, calls,
                 isInitialized, permission, clock, scheduled, nextNotification>>

\* await Notifications.cancelScheduledNotificationAsync(notificationId) or
\* cancelAllScheduledNotificationsAsync() settles; an error is logged and
\* the call resolves all the same.
OsCancel(c) ==
  /\ ncalls[c].pc = "osCancel"
  /\ \E o \in {"ok", "throw"} :
       /\ scheduled' =
            IF o = "throw" THEN scheduled
            ELSE IF ncalls[c].op = "cancelAll" THEN {}
            ELSE {n \in scheduled : n.id # ncalls[c].arg}
       /\ ncalls' = [ncalls EXCEPT
                       ![c].pc = "done", ![c].osCalled = TRUE,
                       ![c].res = Returned(Undefined)]
  /\ UNCHANGED <<platform, uiVars, columns, dbVars, faultsLeft, tableVars, remoteVars, calls,
                 isInitialized, permission, clock, nextNotification>>

\* Time passes.
Tick ==
  /\ clock < MaxTicks * TickMs
  /\ clock' = clock + TickMs
  /\ UNCHANGED <<platform, uiVars, columns, dbVars, faultsLeft, tableVars, remoteVars, calls,
                 isInitialized, permission, scheduled, nextNotification, ncalls>>

\* The user takes the notification permission away in the OS settings.
RevokePermission ==
  /\ permission = "granted"
  /\ permission' = "denied"
  /\ UNCHANGED <<platform, uiVars, columns, dbVars, faultsLeft, tableVars, remoteVars, calls,
                 isInitialized, clock, scheduled, nextNotification, ncalls>>

----------------------------------------------------------------------------
(* Screens: EditProfile, CreateProfile, ProfileDetail *)

\* A screen operation: which one, where it is, whether its catch block
\* logged the error, and the alert it showed ("none", "error", "success").
IdleScreen == [op |-> "none", pc |-> "idle", logged |-> FALSE, alert |-> "none"]

\* A screen operation runs up to its await of a DatabaseService call.
ScreenAwaits(c, screenOp, op, arg) ==
  /\ screens[c].pc \in {"idle", "done"}
  /\ Begin(c, op, arg)
  /\ screens' = [screens EXCEPT ![c] =
                   [IdleScreen EXCEPT !.op = screenOp, !.pc = "awaiting"]]
  /\ UNCHANGED <<platform, columns, profile, layout, notifVars, faultsLeft,
                 tableVars, remoteVars>>

\* The DatabaseService call that screen operation screenOp awaits has settled.
Settled(c, screenOp) ==
  /\ screens[c].op = screenOp
  /\ screens[c].pc = "awaiting"
  /\ calls[c].pc = "done"

\* The rest of a screen operation: the try block goes on after a result
\* (showing `success` when it shows an alert), the catch block runs after
\* an error: console.error, and Alert.alert when alerts is TRUE.
ScreenSettles(c, success, alerts) ==
  /\ screens' = [screens EXCEPT
                   ![c].pc = "done",
                   ![c].logged = (calls[c].res.kind = "throw"),
                   ![c].alert = IF calls[c].res.kind # "throw" THEN success
                                ELSE IF alerts THEN "error" ELSE "none"]
  /\ UNCHANGED <<platform, columns, profile, layout, notifVars, dbVars,
                 faultsLeft, tableVars, remoteVars, calls>>

\* EditProfile.loadProfile: getProfileById(parseInt(id))
EditLoadProfile(c) ==
  /\ \E id \in QueryIds :
       ScreenAwaits(c, "EditProfile.loadProfile", "getProfileById", Num(id))
  /\ saving' = saving

EditLoadProfileSettles(c) ==
  /\ Settled(c, "EditProfile.loadProfile")
  /\ ScreenSettles(c, "none", TRUE)
  /\ saving' = saving

\* ProfileDetail.loadProfile: getProfileById(parseInt(id)); its catch block
\* only logs.
DetailLoadProfile(c) ==
  /\ \E id \in QueryIds :
       ScreenAwaits(c, "ProfileDetail.loadProfile", "getProfileById", Num(id))
  /\ saving' = saving

DetailLoadProfileSettles(c) ==
  /\ Settled(c, "ProfileDetail.loadProfile")
  /\ ScreenSettles(c, "none", FALSE)
  /\ saving' = saving

----------------------------------------------------------------------------
(* The comma-separated fields of the create and edit screens *)

\* The characters a text is made of: letters, the blank and the comma.
Chars == {"a", "b", " ", ","}

\* The longest text that is typed.
MaxTextLen == 6

\* The longest item, and the longest list, that loadProfile is handed.
MaxItemLen == 3
MaxItems == 2

RECURSIVE Split(_, _)
\* text.split(','): piece is the piece that is being read.
Split(text, piece) ==
  IF text = <<>> THEN <<piece>>
  ELSE IF Head(text) = "," THEN <<piece>> \o Split(Tail(text), <<>>)
  ELSE Split(Tail(text), Append(piece, Head(text)))

RECURSIVE TrimStart(_)
TrimStart(piece) ==
  IF piece # <<>> /\ Head(piece) = " " THEN TrimStart(Tail(piece)) ELSE piece

RECURSIVE TrimEnd(_)
TrimEnd(piece) ==
  IF piece # <<>> /\ piece[Len(piece)] = " "
  THEN TrimEnd(SubSeq(piece, 1, Len(piece) - 1))
  ELSE piece

\* A trim of the start of the piece only.
TrimOfStart(piece) == TrimStart(piece)

\* p.trim()
Trim(piece) == TrimEnd(TrimStart(piece))

\* .map(p => p.trim())
TrimAll(pieces) == [i \in 1..Len(pieces) |-> Trim(pieces[i])]

\* .filter(p => p): the empty string is falsy.
DropEmpty(pieces) ==
  LET NotEmpty(piece) == piece # <<>>
  IN SelectSeq(pieces, NotEmpty)

\* text ? text.split(',').map(p => p.trim()).filter(p => p) : []
SplitList(text) ==
  IF text = <<>> THEN <<>> ELSE DropEmpty(TrimAll(Split(text, <<>>)))

RECURSIVE Join(_)
\* list.join(', ')
Join(list) ==
  IF list = <<>> THEN <<>>
  ELSE IF Len(list) = 1 THEN list[1]
  ELSE list[1] \o <<",", " ">> \o Join(Tail(list))

\* No list was joined into the text of the field.
NotJoined == [has |-> FALSE, list |-> <<>>]

\* The field of a new form: parentsText, parents, the list that loadProfile
\* joined into the text (if the text still is that one), and whether
\* onChangeText has run on it.
EmptyForm ==
  [parentsText |-> <<>>, parents |-> <<>>, joined |-> NotJoined,
   changed |-> FALSE, name |-> Str(<<>>), lastContactDate |-> Null]

\* onChangeText(text)
OnChangeText(text) ==
  /\ profile' = [profile EXCEPT
                   !.parentsText = text,
                   !.parents = SplitList(text),
                   !.joined = IF @.has /\ text = Join(@.list)
                              THEN @ ELSE NotJoined,
                   !.changed = TRUE]
  /\ UNCHANGED <<platform, columns, screens, layout, saving, notifVars,
                 dbVars, faultsLeft, tableVars, remoteVars, calls>>

\* The user types a character at the end of the field.
TypeChar ==
  /\ Len(profile.parentsText) < MaxTextLen
  /\ \E ch \in Chars : OnChangeText(Append(profile.parentsText, ch))

\* The user deletes the last character of the field.
DeleteChar ==
  /\ profile.parentsText # <<>>
  /\ OnChangeText(SubSeq(profile.parentsText, 1, Len(profile.parentsText) - 1))

\* The user replaces the text of the field by the same text.
RetypeText == OnChangeText(profile.parentsText)

\* The items of a stored list: trimmed, not empty, without a comma.
Items ==
  {item \in UNION {[1..n -> Chars \ {","}] : n \in 1..MaxItemLen} :
     item[1] # " " /\ item[Len(item)] # " "}

\* The lists of parents that getProfileById hands to loadProfile.
StoredLists == UNION {[1..n -> Items] : n \in 0..MaxItems}

\* EditProfile.loadProfile, which runs when the screen is mounted:
\* parentsText: profileData.parents.join(', ')
LoadParents ==
  /\ profile = EmptyForm
  /\ \E list \in StoredLists :
       profile' = [profile EXCEPT
                     !.parentsText = Join(list), !.parents = list,
                     !.joined = [has |-> TRUE, list |-> list],
                     !.changed = FALSE]
  /\ UNCHANGED <<platform, columns, screens, layout, saving, notifVars,
                 dbVars, faultsLeft, tableVars, remoteVars, calls>>

----------------------------------------------------------------------------
(* handleSave of the create and edit screens *)

\* The names the user types.
NameTexts == {<<>>, <<" ">>, <<"a">>}

\* The dates the user selects in the last-contact calendar.
SelectedDates == {Str(<<"2024-01-15T00", ":", "00", ":", "00.000Z">>)}

FormFrame ==
  UNCHANGED <<platform, columns, screens, layout, saving, notifVars, dbVars,
              faultsLeft, tableVars, remoteVars, calls>>

\* onChangeText of the Name field: updateField('name', text)
OnChangeName ==
  /\ \E text \in NameTexts :
       /\ Str(text) # profile.name
       /\ profile' = [profile EXCEPT !.name = Str(text)]
  /\ FormFrame

\* The edit screen before loadProfile has set the profile: useState(null),
\* where `profile?.name` is undefined.
EditProfileUnset ==
  /\ profile.name # Undefined
  /\ profile' = [profile EXCEPT !.name = Undefined]
  /\ FormFrame

\* selectLastContactDate(date)
SelectLastContactDate ==
  /\ \E date \in SelectedDates :
       /\ date # profile.lastContactDate
       /\ profile' = [profile EXCEPT !.lastContactDate = date]
  /\ FormFrame

\* The Clear Date button: updateField('lastContactDate', null)
ClearLastContactDate ==
  /\ profile.lastContactDate # Null
  /\ profile' = [profile EXCEPT !.lastContactDate = Null]
  /\ FormFrame

\* A name test that lets every name pass.
NameMissingNever(name) == FALSE

\* `!profile?.name?.trim()`
NameMissing(name) ==
  IF name.t \in {"undef", "null"} THEN TRUE ELSE Trim(name.v) = <<>>

\* A SAVE button that is never disabled.
SaveDisabledNever(screen) == FALSE

\* `disabled={saving}` of the SAVE button, as the last render left it: a
\* render follows every handler that set the flag before the next press is
\* handled.
SaveDisabled(screen) == saving[screen]

\* A press of SAVE: handleSave runs up to its return after the alert
\* 'Name is required', or up to its await of createOrUpdateProfile(data).
HandleSave(c, screen, screenOp, data) ==
  /\ screens[c].pc \in {"idle", "done"}
  /\ ~SaveDisabled(screen)
  /\ IF NameMissing(profile.name)
     THEN /\ screens' = [screens EXCEPT ![c] =
                           [IdleScreen EXCEPT !.op = screenOp, !.pc = "done",
                                              !.alert = "nameRequired"]]
          /\ UNCHANGED <<saving, dbVars, calls>>
     ELSE /\ saving' = [saving EXCEPT ![screen] = TRUE]
          /\ Begin(c, "createOrUpdateProfile", data)
          /\ screens' = [screens EXCEPT ![c] =
                           [IdleScreen EXCEPT !.op = screenOp,
                                              !.pc = "awaiting"]]
  /\ UNCHANGED <<platform, columns, profile, layout, notifVars, faultsLeft,
                 tableVars, remoteVars>>

\* handleSave after its await: the alert, and `finally { setSaving(false) }`.
HandleSaveSettles(c, screen, screenOp) ==
  /\ Settled(c, screenOp)
  /\ ScreenSettles(c, "success", TRUE)
  /\ saving' = [saving EXCEPT ![screen] = FALSE]

\* The record of the edit screen: the profile that was loaded, with the
\* name of the form.
EditedProfile(id) ==
  [FormBo EXCEPT !["id"] = Num(id), !["name"] = profile.name]

\* EditProfile.handleSave: createOrUpdateProfile(profile)
EditHandleSave(c) ==
  \E id \in ProfileIds :
    HandleSave(c, "edit", "EditProfile.handleSave", EditedProfile(id))

EditHandleSaveSettles(c) ==
  HandleSaveSettles(c, "edit", "EditProfile.handleSave")

\* CreatedProfile with the date of the form.
CreatedProfileAsSelected ==
  [FormAnn EXCEPT !["name"] = profile.name,
                  !["lastContactDate"] = profile.lastContactDate]

\* { ...profile, lastContactDate: new Date().toISOString() }: the fields of
\* the form, then the key that overrides the date of the form.
CreatedProfile ==
  [[FormAnn EXCEPT !["name"] = profile.name,
                   !["lastContactDate"] = profile.lastContactDate]
     EXCEPT !["lastContactDate"] = NowIso]

\* CreateProfile.handleSave: createOrUpdateProfile(profileData)
CreateHandleSave(c) ==
  /\ nextId["profiles"] <= MaxProfiles
  /\ HandleSave(c, "create", "CreateProfile.handleSave", CreatedProfile)

CreateHandleSaveSettles(c) ==
  HandleSaveSettles(c, "create", "CreateProfile.handleSave")

----------------------------------------------------------------------------
(* RootLayout *)

\* setTimeout(..., 2160)
forceDelayMs == 2160

\* The time between two looks at the timer.
DelayTickMs == 1080

\* An effect that has not run yet has no dependencies recorded.
NeverRan == [ran |-> FALSE, deps |-> <<>>]

\* The dependencies an effect ran with.
RanWith(deps) == [ran |-> TRUE, deps |-> deps]

\* RootLayout when it is mounted: useState(false), useState(true), no timer,
\* no listener; the hook useFrameworkReady reports not ready and no error.
MountedLayout ==
  [isFrameworkReady |-> FALSE, error |-> FALSE,
   gifLoaded |-> FALSE, forceDelay |-> TRUE,
   timer |-> [armed |-> FALSE, elapsed |-> 0],
   timerDeps |-> NeverRan, notificationDeps |-> NeverRan,
   listeners |-> {}, initCalled |-> FALSE]

\* `if (forceDelay || !isFrameworkReady)`: the loading screen is rendered.
ShowsLoading == layout.forceDelay \/ ~layout.isFrameworkReady

\* The Image of the loading screen is rendered: `!error ? <Image ... />`.
ShowsGif == ShowsLoading /\ ~layout.error

LayoutFrame ==
  UNCHANGED <<platform, columns, screens, profile, saving, dbVars, faultsLeft,
              tableVars, remoteVars, calls, isInitialized, permission, clock,
              scheduled, nextNotification>>

\* useFrameworkReady reports another isReady or error. The hook is not part
\* of the sources: it may report anything.
FrameworkReports ==
  /\ \E ready \in BOOLEAN, err \in BOOLEAN :
       /\ <<ready, err>> # <<layout.isFrameworkReady, layout.error>>
       /\ layout' = [layout EXCEPT !.isFrameworkReady = ready, !.error = err]
  /\ ncalls' = ncalls
  /\ LayoutFrame

\* onLoadEnd of the Image: setGifLoaded(true).
OnLoadEnd ==
  /\ ShowsGif
  /\ layout' = [layout EXCEPT !.gifLoaded = TRUE]
  /\ ncalls' = ncalls
  /\ LayoutFrame

\* A timer effect that starts the timer whether the GIF has loaded or not.
TimerStartsAlways == TRUE

\* `if (gifLoaded)` of the timer effect.
TimerStarts == layout.gifLoaded

\* The effect of [gifLoaded]: it runs after the first render and after a
\* render with another gifLoaded; the cleanup of the run before clears its
\* timer.
TimerEffect ==
  /\ layout.timerDeps # RanWith(<<layout.gifLoaded>>)
  /\ layout' = [layout EXCEPT
                  !.timerDeps = RanWith(<<layout.gifLoaded>>),
                  !.timer = [armed |-> TimerStarts, elapsed |-> 0]]
  /\ ncalls' = ncalls
  /\ LayoutFrame

\* Time passes while the timer is pending.
TimerTick ==
  /\ layout.timer.armed
  /\ layout.timer.elapsed < forceDelayMs
  /\ layout' = [layout EXCEPT !.timer.elapsed = @ + DelayTickMs]
  /\ ncalls' = ncalls
  /\ LayoutFrame

\* The callback of setTimeout: setForceDelay(false).
TimerFires ==
  /\ layout.timer.armed
  /\ layout.timer.elapsed >= forceDelayMs
  /\ layout' = [layout EXCEPT !.forceDelay = FALSE, !.timer.armed = FALSE]
  /\ ncalls' = ncalls
  /\ LayoutFrame

\* The effect of [isFrameworkReady, forceDelay]: the cleanup of the run
\* before removes its listeners; then, when the framework is ready and the
\* delay is over, NotificationService.init() is called (and not awaited) and
\* the two listeners are registered. init() is called for c.
NotificationEffect(c) ==
  LET deps == RanWith(<<layout.isFrameworkReady, layout.forceDelay>>)
      runs == layout.isFrameworkReady /\ ~layout.forceDelay
  IN /\ layout.notificationDeps # deps
     /\ runs => ncalls[c].pc \in {"idle", "done"}
     /\ layout' = [layout EXCEPT
                     !.notificationDeps = deps,
                     !.listeners = IF runs THEN {"response", "received"}
                                   ELSE {},
                     !.initCalled = @ \/ runs]
     /\ IF runs THEN InitCalled(c) ELSE ncalls' = ncalls
     /\ LayoutFrame

----------------------------------------------------------------------------
(* Specification *)

vars ==
  <<platform, dbVars, faultsLeft, tableVars, remoteVars, calls, notifVars,
    uiVars, columns>>

Tables == {"profiles", "reminders", "interactions", "life_events", "feedback"}

\* The state after the service object is constructed, on a fresh install.
\* The row of a profile saved under a schema with the columns cols: a column
\* the table does not have is absent from the row.
OldRow(cols) ==
  [f \in DataFields |-> IF f \in cols THEN ProfileParams(FormBo)[f] ELSE Undefined]

\* An installation that an older version of the app left behind has a
\* profiles table with the columns of one of schemas and one profile in it.
InitWith(faults, permissions, platforms, clients, schemas) ==
  /\ columns \in schemas
  /\ platform \in platforms
  /\ isInitialized = FALSE
  /\ permission \in permissions
  /\ clock = 0
  /\ scheduled = {}
  /\ nextNotification = 1
  /\ ncalls = [c \in Callers |-> IdleNotification]
  /\ db = "null"
  /\ readyPromise = "null"
  /\ isWebFallback = FALSE
  /\ initPc = "none"
  /\ initFaults = {}
  /\ initCalls = [opens |-> 0, creates |-> 0, threw |-> 0]
  /\ faultsLeft = faults
  /\ profiles = IF columns = {} THEN <<>> ELSE 1 :> OldRow(columns)
  /\ updatedOrder = IF columns = {} THEN <<>> ELSE <<1>>
  /\ nextId = [t \in Tables |->
                 IF t = "profiles" /\ columns # {} THEN 2 ELSE 1]
  /\ reminders = {}
  /\ interactions = {}
  /\ lifeEvents = {}
  /\ feedback = {}
  /\ session = "none"
  /\ everSignedIn = FALSE
  /\ remoteClient \in clients
  /\ remoteProfiles = {}
  /\ remoteFeedback = {}
  /\ calls = [c \in Callers |-> IdleCall]
  /\ screens = [c \in Callers |-> IdleScreen]
  /\ profile = EmptyForm
  /\ layout = MountedLayout
  /\ saving = [screen \in {"create", "edit"} |-> FALSE]

\* Platform.OS
Platforms == {"web", "ios", "android"}

Init == InitWith(MaxFaults, {"undetermined"}, Platforms, BOOLEAN, {{}})

InitSteps == OpenDatabase \/ MigrateDatabase \/ CreateTables

\* Reading and saving profiles, with no user signed in.
Next ==
  \/ InitSteps
  \/ GetProfileById("c1")
  \/ GetProfileByIdQuery("c1")
  \/ GetAllProfiles("c1")
  \/ GetAllProfilesQuery("c1")
  \/ CreateOrUpdateProfile("c1", ProfileForms)
  \/ WriteProfile("c1")
  \/ GetSession("c1")
  \/ DeleteProfile("c1")
  \/ \E n \in 1..Len(DeleteSteps) : DeleteProfileStep("c1", n)

Spec == Init /\ [][Next]_vars

\* Profiles and their dependents: creating, adding and deleting. The database
\* service tells the web from the other platforms only, and with no user
\* signed in the remote client is never asked for.
NextCascade ==
  \/ InitSteps
  \/ CreateOrUpdateProfile("c1", {FormBare})
  \/ WriteProfile("c1")
  \/ GetSession("c1")
  \/ CreateReminder("c1")
  \/ CreateReminderInsert("c1")
  \/ AddInteraction("c1")
  \/ AddInteractionInsert("c1")
  \/ AddLifeEvent("c1")
  \/ AddLifeEventInsert("c1")
  \/ DeleteProfile("c1")
  \/ \E n \in 1..Len(DeleteSteps) : DeleteProfileStep("c1", n)

SpecCascade ==
  InitWith(0, {"undetermined"}, {"web", "ios"}, {FALSE}, {{}}) /\ [][NextCascade]_vars

\* Saving profiles and submitting feedback while the user signs in and out.
NextRemote ==
  \/ InitSteps
  \/ SignIn
  \/ SignOut
  \/ CreateOrUpdateProfile("c1", {FormBare})
  \/ WriteProfile("c1")
  \/ GetSession("c1")
  \/ AuthInit("c1")
  \/ RemoteInsert("c1")
  \/ SubmitFeedback("c1")
  \/ SubmitFeedbackStore("c1")

SpecRemote ==
  InitWith(0, {"undetermined"}, Platforms, BOOLEAN, {{}}) /\ [][NextRemote]_vars

\* The steps the device itself takes: the initialization and the statements
\* of the local database.
LocalSteps ==
  \/ InitSteps
  \/ WriteProfile("c1")
  \/ SubmitFeedbackStore("c1")

\* SpecRemote where the device always gets to take its own steps, and where
\* nothing promises that a call to the remote backend ever completes.
SpecRemoteLocalFair == SpecRemote /\ WF_vars(LocalSteps)

\* Two callers saving profiles at the same time.
NextSaves ==
  \/ InitSteps
  \/ \E c \in Callers : CreateOrUpdateProfile(c, {FormAnn, FormBare})
  \/ \E c \in Callers : WriteProfile(c)
  \/ \E c \in Callers : GetSession(c)

SpecSaves ==
  InitWith(0, {"undetermined"}, {"web", "ios"}, {FALSE}, {{}}) /\ [][NextSaves]_vars

\* The life of reminders: created, snoozed, changed, completed, deleted.
NextReminders ==
  \/ InitSteps
  \/ CreateReminder("c1")
  \/ CreateReminderInsert("c1")
  \/ CompleteReminder("c1")
  \/ CompleteReminderUpdate("c1")
  \/ SnoozeReminder("c1")
  \/ SnoozeReminderUpdate("c1")
  \/ UpdateReminderNotificationId("c1")
  \/ UpdateReminderNotificationIdUpdate("c1")
  \/ UpdateReminder("c1")
  \/ UpdateReminderUpdate("c1")
  \/ DeleteReminder("c1")
  \/ DeleteReminderDelete("c1")
  \/ DeleteProfile("c1")
  \/ \E n \in 1..Len(DeleteSteps) : DeleteProfileStep("c1", n)

SpecReminders ==
  InitWith(0, {"undetermined"}, {"web", "ios"}, {FALSE}, {{}}) /\ [][NextReminders]_vars

\* Interactions, life events and feedback: added, and removed with the
\* profile or with everything.
NextRecords ==
  \/ InitSteps
  \/ AddInteraction("c1")
  \/ AddInteractionInsert("c1")
  \/ AddLifeEvent("c1")
  \/ AddLifeEventInsert("c1")
  \/ SubmitFeedback("c1")
  \/ SubmitFeedbackStore("c1")
  \/ UpdateFeedbackStatus("c1")
  \/ UpdateFeedbackStatusUpdate("c1")
  \/ DeleteProfile("c1")
  \/ \E n \in 1..Len(DeleteSteps) : DeleteProfileStep("c1", n)
  \/ ClearAllData("c1")
  \/ ClearAllDataDrop("c1")
  \/ ClearAllDataCreateTables("c1")

SpecRecords ==
  InitWith(0, {"undetermined"}, {"web", "ios"}, {FALSE}, {{}}) /\ [][NextRecords]_vars

\* The screens loading and saving profiles while the storage may fail.
NextScreens ==
  \/ InitSteps
  \/ OnChangeName
  \/ EditLoadProfile("c1")
  \/ EditLoadProfileSettles("c1")
  \/ EditHandleSave("c1")
  \/ EditHandleSaveSettles("c1")
  \/ CreateHandleSave("c1")
  \/ CreateHandleSaveSettles("c1")
  \/ DetailLoadProfile("c1")
  \/ DetailLoadProfileSettles("c1")
  \/ GetProfileByIdQuery("c1")
  \/ WriteProfile("c1")
  \/ GetSession("c1")

SpecScreens ==
  InitWith(MaxFaults, {"undetermined"}, {"web", "ios"}, {FALSE}, {{}})
    /\ [][NextScreens]_vars

\* Columns that profiles tables of older versions may lack: two that
\* migrateDatabase adds and one that it does not.
OlderSchemaLacks == {"parents", "facebook", "pets"}

\* The profiles tables that older versions of the app left behind.
OlderSchemas == {AllColumns \ lacking : lacking \in SUBSET OlderSchemaLacks}

\* Starting the app on a fresh installation or on the database of an older
\* version, then reading and saving profiles.
NextMigration ==
  \/ InitSteps
  \/ GetProfileById("c1")
  \/ GetProfileByIdQuery("c1")
  \/ CreateOrUpdateProfile("c1", {FormBo})
  \/ WriteProfile("c1")
  \/ GetSession("c1")

SpecMigration ==
  InitWith(MaxFaults, {"undetermined"}, {"web", "ios"}, {FALSE},
           {{}} \cup OlderSchemas)
    /\ [][NextMigration]_vars

\* Reading, saving, deleting and clearing, on the web, on a device whose
\* database cannot be opened, and on one whose database works; the device
\* may hold the database of an earlier run.
NextWebFallback ==
  \/ InitSteps
  \/ GetProfileById("c1")
  \/ GetProfileByIdQuery("c1")
  \/ GetAllProfiles("c1")
  \/ GetAllProfilesQuery("c1")
  \/ CreateOrUpdateProfile("c1", {FormBare})
  \/ WriteProfile("c1")
  \/ GetSession("c1")
  \/ DeleteProfile("c1")
  \/ \E n \in 1..Len(DeleteSteps) : DeleteProfileStep("c1", n)
  \/ ClearAllData("c1")
  \/ ClearAllDataDrop("c1")
  \/ ClearAllDataCreateTables("c1")

SpecWebFallback ==
  InitWith(MaxFaults, {"undetermined"}, {"web", "ios"}, {FALSE},
           {{}, AllColumns})
    /\ [][NextWebFallback]_vars

\* Two callers starting operations before, while and after the database is
\* initialized, with storage that may fail.
NextInit ==
  \/ InitSteps
  \/ \E c \in Callers : GetProfileById(c)
  \/ \E c \in Callers : GetProfileByIdQuery(c)
  \/ \E c \in Callers : CreateOrUpdateProfile(c, {FormBare})
  \/ \E c \in Callers : WriteProfile(c)
  \/ \E c \in Callers : GetSession(c)

SpecInit ==
  InitWith(MaxFaults, {"undetermined"}, {"web", "ios"}, {FALSE}, {{}})
    /\ [][NextInit]_vars

\* Two callers initializing the notification service and scheduling
\* reminders at one moment, while the user may take the permission away.
NextNotificationInit ==
  \/ \E c \in Callers : NotificationInit(c)
  \/ \E c \in Callers : ScheduleReminderNotification(c)
  \/ \E c \in Callers : GetPermissions(c)
  \/ \E c \in Callers : RequestPermissions(c)
  \/ \E c \in Callers : SetNotificationChannel(c)
  \/ \E c \in Callers : OsSchedule(c)
  \/ \E c \in Callers : ListScheduled(c)
  \/ RevokePermission

SpecNotificationInit ==
  InitWith(0, {"undetermined", "granted"}, Platforms, {FALSE}, {{}})
    /\ [][NextNotificationInit]_vars

\* The user is on one screen at a time: no save of another screen is in
\* flight. A handleSave runs for c1 unless c1 awaits a save.
OnScreen(c, screen) ==
  /\ \A other \in DOMAIN saving \ {screen} : ~saving[other]
  /\ c = "c1" \/ screens["c1"].pc = "awaiting"

\* The user fills in the form of the create or edit screen and presses SAVE,
\* also while a save is in flight; the storage may fail.
NextTaps ==
  \/ InitSteps
  \/ OnChangeName
  \/ EditProfileUnset
  \/ \E c \in Callers : OnScreen(c, "create") /\ CreateHandleSave(c)
  \/ \E c \in Callers : CreateHandleSaveSettles(c)
  \/ \E c \in Callers : OnScreen(c, "edit") /\ EditHandleSave(c)
  \/ \E c \in Callers : EditHandleSaveSettles(c)
  \/ \E c \in Callers : WriteProfile(c)
  \/ \E c \in Callers : GetSession(c)

SpecTaps ==
  InitWith(MaxFaults, {"undetermined"}, {"ios"}, {FALSE}, {{}})
    /\ [][NextTaps]_vars

\* The record that caller c hands to its operation names the profile that
\* the database holds at the start, or no profile.
OfStoredProfile(c) == calls[c].arg.profileId \in {Null, Num(1)}

\* Deleting a profile that has reminders, interactions and life events,
\* with storage that may fail; the database holds a profile at the start.
NextDelete ==
  \/ InitSteps
  \/ CreateReminder("c1") /\ OfStoredProfile("c1")'
  \/ CreateReminderInsert("c1")
  \/ AddInteraction("c1") /\ OfStoredProfile("c1")'
  \/ AddInteractionInsert("c1")
  \/ AddLifeEvent("c1") /\ OfStoredProfile("c1")'
  \/ AddLifeEventInsert("c1")
  \/ DeleteProfile("c1")
  \/ \E n \in 1..Len(DeleteSteps) : DeleteProfileStep("c1", n)

SpecDelete ==
  InitWith(MaxFaults, {"undetermined"}, {"ios"}, {FALSE}, {AllColumns})
    /\ [][NextDelete]_vars

\* Profiles saved, deleted and read by id, so that a save or a read can
\* name a profile that is stored no more, with storage that may fail.
NextStale ==
  \/ InitSteps
  \/ CreateOrUpdateProfile("c1", {FormAnn})
  \/ WriteProfile("c1")
  \/ GetSession("c1")
  \/ DeleteProfile("c1")
  \/ (\E n \in 1..Len(DeleteSteps) : DeleteProfileStep("c1", n))
  \/ GetProfileById("c1")
  \/ GetProfileByIdQuery("c1")

SpecStale ==
  InitWith(MaxFaults, {"undetermined"}, {"ios"}, {FALSE}, {{}})
    /\ [][NextStale]_vars

\* The create screen: the user types a name, selects or clears the date of
\* the last contact, and presses SAVE, with storage that may fail.
NextCreate ==
  \/ InitSteps
  \/ OnChangeName
  \/ SelectLastContactDate
  \/ ClearLastContactDate
  \/ CreateHandleSave("c1")
  \/ CreateHandleSaveSettles("c1")
  \/ WriteProfile("c1")
  \/ GetSession("c1")

SpecCreate ==
  InitWith(MaxFaults, {"undetermined"}, {"ios"}, {FALSE}, {{}})
    /\ [][NextCreate]_vars

\* The reminder that c schedules a notification for is due far enough ahead
\* for the minimum buffer not to apply.
DueLater(c) == ncalls[c].arg = 2 * TickMs

\* Reminders whose notifications are scheduled with the OS: the caller
\* schedules a notification, stores its identifier in the reminder, and the
\* reminder is completed or removed; notifications are cancelled by the
\* caller only.
NextPending ==
  \/ InitSteps
  \/ CreateReminder("c1") /\ OfStoredProfile("c1")'
  \/ CreateReminderInsert("c1")
  \/ ScheduleReminderNotification("c1") /\ DueLater("c1")'
  \/ GetPermissions("c1")
  \/ RequestPermissions("c1")
  \/ OsSchedule("c1")
  \/ ListScheduled("c1")
  \/ UpdateReminderNotificationId("c1")
  \/ UpdateReminderNotificationIdUpdate("c1")
  \/ CompleteReminder("c1")
  \/ CompleteReminderUpdate("c1")
  \/ DeleteReminder("c1")
  \/ DeleteReminderDelete("c1")
  \/ DeleteProfile("c1") /\ calls'["c1"].arg = Num(1)
  \/ (\E n \in 1..Len(DeleteSteps) : DeleteProfileStep("c1", n))
  \/ ClearAllData("c1")
  \/ ClearAllDataDrop("c1")
  \/ ClearAllDataCreateTables("c1")
  \/ CancelNotification("c1")
  \/ CancelAllNotifications("c1")
  \/ OsCancel("c1")

SpecPending ==
  InitWith(0, {"undetermined"}, {"ios"}, {FALSE}, {{}}) /\ [][NextPending]_vars

\* The root layout from its mount on, with the notification service it
\* initializes.
NextLayout ==
  \/ FrameworkReports
  \/ OnLoadEnd
  \/ TimerEffect
  \/ TimerTick
  \/ TimerFires
  \/ \E c \in Callers : NotificationEffect(c)
  \/ \E c \in Callers : GetPermissions(c)
  \/ \E c \in Callers : RequestPermissions(c)
  \/ \E c \in Callers : SetNotificationChannel(c)

SpecLayout ==
  InitWith(0, {"undetermined", "granted"}, {"ios", "android"}, {FALSE}, {{}})
    /\ [][NextLayout]_vars

\* Editing the Parents field of a form.
NextForm ==
  \/ TypeChar
  \/ DeleteChar
  \/ RetypeText
  \/ LoadParents

SpecForm ==
  InitWith(0, {"undetermined"}, {"ios"}, {FALSE}, {{}}) /\ [][NextForm]_vars

\* Scheduling reminder notifications while time passes.
NextNotifications ==
  \/ NotificationInit("c1")
  \/ ScheduleReminderNotification("c1")
  \/ GetPermissions("c1")
  \/ RequestPermissions("c1")
  \/ SetNotificationChannel("c1")
  \/ OsSchedule("c1")
  \/ ListScheduled("c1")
  \/ Tick
  \/ RevokePermission

SpecNotifications ==
  InitWith(0, {"undetermined", "granted"}, Platforms, {FALSE}, {{}})
    /\ [][NextNotifications]_vars

----------------------------------------------------------------------------
(* Claims *)

\* The call of caller c to operation op has returned or thrown.
Done(c, op) == calls[c].op = op /\ calls[c].pc = "done"

\* The value createOrUpdateProfile is asked to store in field f: an absent
\* scalar is null and an absent list is the empty list.
SavedValue(pd, f) ==
  IF pd[f] # Undefined THEN pd[f]
  ELSE IF f \in ListFields THEN List(<<>>) ELSE Null

\* The record with the values saved from pd, under the id that was returned.
SavedProfile(pd, id) ==
  [f \in ViewFields |-> IF f = "id" THEN id ELSE SavedValue(pd, f)]

\* C1: outside web fallback mode, once createOrUpdateProfile(record) has
\* returned an id for a create or for an update of a stored profile,
\* getProfileById(id) returns a record whose every field equals the value
\* that was saved (as long as no other operation has written that row).
C1_SavedProfileIsRetrievable ==
  \A c \in Callers :
    (/\ Done(c, "createOrUpdateProfile")
     /\ calls[c].res.kind = "ok"
     /\ ~isWebFallback
     /\ calls[c].wrote)
    => SelectProfile(calls[c].res.val.v)
         = Returned(Profile(SavedProfile(calls[c].arg, calls[c].res.val)))

\* C1 witness: an update of a stored profile with every field filled in has
\* returned in database mode.
C1_Witness ==
  /\ Done("c1", "createOrUpdateProfile")
  /\ calls["c1"].res.kind = "ok"
  /\ ~isWebFallback
  /\ calls["c1"].wrote
  /\ calls["c1"].arg["id"] # Undefined
  /\ calls["c1"].arg["name"] = FormBo["name"]

\* C2: after deleteProfile(p) has completed, profile p is not stored and no
\* reminder, interaction or life event with profileId = p is stored.
C2_DeleteRemovesDependents ==
  \A c \in Callers :
    (Done(c, "deleteProfile") /\ calls[c].res.kind = "ok")
    => /\ calls[c].arg.v \notin DOMAIN profiles
       /\ \A r \in reminders : r.profileId # calls[c].arg
       /\ \A r \in interactions : r.profileId # calls[c].arg
       /\ \A r \in lifeEvents : r.profileId # calls[c].arg

\* C2 witness: a deleteProfile has completed in database mode after a
\* profile, a reminder, an interaction and a life event were inserted, and
\* none of the dependents is left.
C2_Witness ==
  /\ Done("c1", "deleteProfile")
  /\ calls["c1"].res.kind = "ok"
  /\ ~isWebFallback
  /\ nextId["profiles"] > calls["c1"].arg.v
  /\ nextId["reminders"] > 1 /\ reminders = {}
  /\ nextId["interactions"] > 1 /\ interactions = {}
  /\ nextId["life_events"] > 1 /\ lifeEvents = {}

\* The call of caller c to scheduleReminderNotification has ended.
ScheduleDone(c) == ncalls[c].op = "schedule" /\ ncalls[c].pc = "done"

\* init() yielded false to scheduleReminderNotification: permission was not
\* granted, or init failed.
NotGranted(c) == ncalls[c].initResult = Bool(FALSE)

\* The scheduled time was not later than the time the call read.
InThePast(c) == ~NotGranted(c) /\ ncalls[c].arg <= ncalls[c].now

\* C3 as claimed: whenever permission is not granted or scheduledFor is not
\* later than the current time, scheduleReminderNotification raises an error
\* and schedules no OS notification.
C3_FailsWithErrorInBothCases ==
  \A c \in Callers :
    (ScheduleDone(c) /\ (NotGranted(c) \/ InThePast(c)))
    => ncalls[c].res.kind = "throw" /\ ~ncalls[c].osCalled

\* C3 as amended: no OS notification is scheduled in either case; when
\* permission is not granted the call throws 'Notifications not initialized',
\* and when scheduledFor is not later than the current time it returns null
\* without throwing.
C3_ThrowsOrReturnsNull ==
  \A c \in Callers :
    ScheduleDone(c)
    => /\ NotGranted(c)
          => ncalls[c].res = Threw(NotInitializedError) /\ ~ncalls[c].osCalled
       /\ InThePast(c)
          => ncalls[c].res = Returned(Null) /\ ~ncalls[c].osCalled

\* C3 witness: with the service initialized, a reminder scheduled for a time
\* before the current time was turned down.
C3_Witness ==
  /\ ScheduleDone("c1")
  /\ isInitialized
  /\ ncalls["c1"].arg < ncalls["c1"].now
  /\ ncalls["c1"].res = Returned(Null)

\* The OS was asked to schedule the notification of caller c.
HandedToOs(c) == ncalls[c].op = "schedule" /\ ncalls[c].osCalled

\* C4 as claimed: a scheduledFor less than the buffer after the current time
\* is pushed forward by the buffer, a later one is unchanged, and every
\* trigger is at least the buffer after the time the call read.
C4_PushedForwardByBuffer ==
  \A c \in Callers :
    HandedToOs(c)
    => /\ ncalls[c].arg - ncalls[c].now < minimumBufferMs
          => ncalls[c].trigger = ncalls[c].arg + minimumBufferMs
       /\ ncalls[c].arg - ncalls[c].now >= minimumBufferMs
          => ncalls[c].trigger = ncalls[c].arg
       /\ ncalls[c].trigger >= ncalls[c].now + minimumBufferMs

\* C4 as amended: a scheduledFor less than the buffer after the current time
\* is replaced by the current time plus the buffer, a later one is
\* unchanged, and every trigger is at least the buffer after the time the
\* call read.
C4_SetToNowPlusBuffer ==
  \A c \in Callers :
    HandedToOs(c)
    => /\ ncalls[c].arg - ncalls[c].now < minimumBufferMs
          => ncalls[c].trigger = ncalls[c].now + minimumBufferMs
       /\ ncalls[c].arg - ncalls[c].now >= minimumBufferMs
          => ncalls[c].trigger = ncalls[c].arg
       /\ ncalls[c].trigger >= ncalls[c].now + minimumBufferMs

\* C4 witness: a notification was scheduled with the OS for a reminder that
\* was in the future by less than the buffer, at a time after the start.
C4_Witness ==
  /\ HandedToOs("c1")
  /\ ncalls["c1"].now > 0
  /\ ncalls["c1"].arg > ncalls["c1"].now
  /\ ncalls["c1"].arg - ncalls["c1"].now < minimumBufferMs
  /\ \E n \in scheduled : n.trigger = ncalls["c1"].trigger

ListFieldsAreSequences(view) == \A f \in ListFields : view[f].t = "list"

\* C5: every profile that getProfileById or getAllProfiles returns, in
\* database mode and in web fallback mode, has each list-valued field as a
\* sequence.
C5_ListFieldsAreSequences ==
  \A c \in Callers :
    /\ (Done(c, "getProfileById") /\ calls[c].res.kind = "ok"
        /\ calls[c].res.val.t = "profile")
       => ListFieldsAreSequences(calls[c].res.val.v)
    /\ (Done(c, "getAllProfiles") /\ calls[c].res.kind = "ok")
       => \A i \in 1..Len(calls[c].res.val.v) :
            ListFieldsAreSequences(calls[c].res.val.v[i])

ProfileOperations ==
  {"getProfileById", "getAllProfiles", "createOrUpdateProfile", "deleteProfile"}

\* C6 as claimed: every storage error met during one of the four profile
\* operations, the lazy initialization included, is the error the operation
\* raises.
C6_StorageErrorsSurface ==
  \A c \in Callers :
    (calls[c].op \in ProfileOperations /\ calls[c].pc = "done")
    => \A f \in calls[c].faults : calls[c].res = Threw(f)

\* The storage errors the initialization does not pass on: any error of the
\* migration step, and an error of opening the database or creating the
\* tables whose message includes 'unable to open database file'.
KeptByInit(f) ==
  \/ f.site = "migrate"
  \/ f.site \in {"open", "create"} /\ f.msg = "cantopen"

\* C6 as amended: every storage error met during one of the four profile
\* operations is the error the operation raises, except the errors the
\* initialization keeps to itself.
C6_StorageErrorsSurfaceExceptInit ==
  \A c \in Callers :
    (calls[c].op \in ProfileOperations /\ calls[c].pc = "done")
    => \A f \in calls[c].faults : KeptByInit(f) \/ calls[c].res = Threw(f)

\* C6 witness: a profile operation has raised the error that creating the
\* tables met during the initialization the operation triggered.
C6_Witness ==
  /\ calls["c1"].op \in ProfileOperations
  /\ calls["c1"].pc = "done"
  /\ calls["c1"].res = Threw(StorageError("create", "io"))

RemoteFailures == {"threw", "rejected", "noclient"}

\* C7: when the remote mirroring step fails, createOrUpdateProfile returns
\* the profile id and the local row holds what was saved.
C7_RemoteFailureDoesNotFailSave ==
  \A c \in Callers :
    (Done(c, "createOrUpdateProfile") /\ calls[c].remote \in RemoteFailures)
    => /\ calls[c].res = Returned(calls[c].id)
       /\ calls[c].wrote
          => /\ calls[c].id.v \in DOMAIN profiles
             /\ profiles[calls[c].id.v] = ProfileParams(calls[c].arg)

\* C7 witness: a create whose remote step threw has returned its id in
\* database mode.
C7_Witness ==
  /\ Done("c1", "createOrUpdateProfile")
  /\ calls["c1"].remote = "threw"
  /\ calls["c1"].res.kind = "ok"
  /\ calls["c1"].arg["id"] = Undefined
  /\ ~isWebFallback

\* C8: createOrUpdateProfile does not wait for the remote call: once the
\* local write of a save is done, the save returns to its caller, even if
\* the session lookup or the remote insert never completes.
C8_ReturnsWithoutWaitingForRemote ==
  (calls["c1"].op = "createOrUpdateProfile" /\ calls["c1"].pc = "session")
    ~> (calls["c1"].pc = "done")

\* C9: profile data reaches the remote backend only for a save made while a
\* session with a user id exists; while no user has signed in, nothing is
\* sent.
C9_RemoteInsertNeedsSession ==
  /\ \A row \in remoteProfiles : row.user_id = "user"
  /\ ~everSignedIn => remoteProfiles = {}

\* C9 witness: in web fallback mode a save has completed with the remote
\* client available and no session, and nothing was sent.
C9_Witness ==
  /\ Done("c1", "createOrUpdateProfile")
  /\ isWebFallback
  /\ remoteClient
  /\ calls["c1"].remote = "nosession"
  /\ remoteProfiles = {}

\* C10: with the remote backend available, submitFeedback stores the
\* feedback remotely, or, when the remote insert fails, stores it locally
\* and returns an id.
C10_FeedbackStoredRemotely ==
  \A c \in Callers :
    (Done(c, "submitFeedback") /\ remoteClient)
    => \/ calls[c].remote = "sent" /\ remoteFeedback # {}
       \/ calls[c].remote \in {"rejected", "threw"}
            /\ calls[c].res.kind = "ok"

\* The local write of the save of caller c has run.
HasWritten(c) ==
  /\ calls[c].op = "createOrUpdateProfile"
  /\ calls[c].pc \in {"session", "authInit", "insert", "done"}
  /\ calls[c].res.kind # "throw"

\* C11: an update overwrites the whole row, last write wins: in database
\* mode, among the saves to one id whose write has run, the row read back
\* equals, field for field, the record of the save whose write ran last (an
\* absent scalar as null, an absent list as the empty list), and there is
\* only one such save.
C11_WholeRowLastWriteWins ==
  /\ \A c \in Callers :
       (HasWritten(c) /\ calls[c].wrote /\ ~isWebFallback)
       => SelectProfile(calls[c].id.v)
            = Returned(Profile(SavedProfile(calls[c].arg, calls[c].id)))
  /\ \A c, d \in Callers :
       (c # d /\ HasWritten(c) /\ HasWritten(d) /\ calls[c].id = calls[d].id
        /\ ~isWebFallback)
       => ~(calls[c].wrote /\ calls[d].wrote)

\* C11 witness: two updates of the same stored profile with different
\* records were in flight together; c1 started first, c2 wrote first and c1
\* wrote last.
C11_Witness ==
  /\ ~isWebFallback
  /\ HasWritten("c1") /\ HasWritten("c2")
  /\ calls["c1"].arg["id"] # Undefined
  /\ calls["c1"].arg["id"] = calls["c2"].arg["id"]
  /\ calls["c1"].arg["name"] = FormBare["name"]
  /\ calls["c2"].arg["name"] = FormAnn["name"]
  /\ calls["c1"].wrote /\ ~calls["c2"].wrote
  /\ calls["c1"].pc = "session" /\ calls["c2"].pc = "session"

\* The reminder row r is stored with completed = 1.
Completed(r) == r \in reminders /\ r.completed = Num(1)

\* The rows that reminder r has become in the next state (none when it was
\* deleted).
Successors(r) == {q \in reminders' : q.id = r.id}

\* C12: a reminder is inserted with completed = 0, and no step sets the
\* completed flag of a completed reminder back: in the next state the
\* reminder is still completed, or it is no longer stored.
C12_CompletionIsOneWay ==
  [][/\ \A q \in reminders' :
          (\A r \in reminders : r.id # q.id) => q.completed = Num(0)
     /\ \A r \in reminders :
          Completed(r) => \A q \in Successors(r) : q.completed = Num(1)]_vars

\* C12 witness: completeReminder has set the flag of a reminder, and a
\* later updateReminder of that reminder has run.
C12_Witness ==
  /\ calls["c1"].op = "updateReminder"
  /\ calls["c1"].pc = "done"
  /\ \E r \in reminders :
       /\ Completed(r)
       /\ Num(r.id) = calls["c1"].arg.id
       /\ r.title = calls["c1"].arg.title

\* C13: once a reminder is completed, no step changes its scheduled time.
C13_NoRescheduleAfterCompletion ==
  [][\A r \in reminders :
       Completed(r) => \A q \in Successors(r) : q.scheduledFor = r.scheduledFor]_vars

\* Every row of rows that is still stored in rows2 under its id is stored
\* there unchanged.
RowsKept(rows, rows2) ==
  \A r \in rows : \A q \in rows2 : q.id = r.id => q = r

\* C14: no step changes a field of a stored interaction or life event; a
\* step adds an interaction or life event only in addInteraction or
\* addLifeEvent, and removes one only in deleteProfile or clearAllData; and
\* the only field of a stored feedback record that a step changes is status.
C14_RecordsAreAppendOnly ==
  [][/\ RowsKept(interactions, interactions')
     /\ RowsKept(lifeEvents, lifeEvents')
     /\ \A r \in feedback : \A q \in feedback' :
          q.id = r.id => [q EXCEPT !.status = r.status] = r
     /\ \A c \in Callers :
          /\ ~(interactions' \subseteq interactions) /\ calls'[c] # calls[c]
             => calls[c].op = "addInteraction"
          /\ ~(lifeEvents' \subseteq lifeEvents) /\ calls'[c] # calls[c]
             => calls[c].op = "addLifeEvent"
          /\ (~(interactions \subseteq interactions')
                \/ ~(lifeEvents \subseteq lifeEvents'))
             /\ calls'[c] # calls[c]
             => calls[c].op \in {"deleteProfile", "clearAllData"}]_vars

\* C14 witness: with an interaction and a life event stored, the status of a
\* stored feedback record has been updated.
C14_Witness ==
  /\ calls["c1"].op = "updateFeedbackStatus"
  /\ calls["c1"].pc = "done"
  /\ interactions # {}
  /\ lifeEvents # {}
  /\ \E r \in feedback :
       Num(r.id) = calls["c1"].arg.id /\ r.status = calls["c1"].arg.status

\* C15: every failure of the data-layer call of a screen operation is
\* caught there and shown to the user as an alert.
C15_FailuresAreAlerted ==
  \A c \in Callers :
    (screens[c].pc = "done" /\ calls[c].res.kind = "throw")
    => screens[c].logged /\ screens[c].alert = "error"

\* init has completed successfully and the database is in use.
InitCompleted == readyPromise = "resolved" /\ ~isWebFallback

\* A save failed because the profiles table lacks a column.
ColumnMissing(c) ==
  /\ calls[c].op = "createOrUpdateProfile"
  /\ calls[c].res = Threw(StorageError("stmt", "nocolumn"))

OnlyMigratedLacking ==
  AllColumns \subseteq
    columns \cup {MigratedColumns[k] : k \in 1..Len(MigratedColumns)}

\* No statement of the migration failed.
MigrationRan == \A f \in initFaults : f.site # "migrate"

\* The table has every column the save writes, and no save failed for a
\* missing column, whenever init has completed successfully, with no
\* statement of the migration failing, on a profiles table that lacked none
\* but columns migrateDatabase adds.
MigratedColumnsAfterInit ==
  (InitCompleted /\ OnlyMigratedLacking /\ MigrationRan)
  => /\ AllColumns \subseteq columns
     /\ \A c \in Callers : ~ColumnMissing(c)

\* A step of migrateDatabase keeps every column, every row, and every value
\* a row holds in a column the table had.
MigrationOnlyAdds ==
  initPc = "migrate"
  => /\ columns \subseteq columns'
     /\ DOMAIN profiles' = DOMAIN profiles
     /\ \A i \in DOMAIN profiles : \A f \in DataFields \cap columns :
          profiles'[i][f] = profiles[i][f]

ServesMocks(c) ==
  /\ (Done(c, "getAllProfiles") /\ calls[c].res.kind = "ok")
     => calls[c].res.val = ProfileList(<<MockJohn, MockSarah>>)
  /\ (Done(c, "getProfileById") /\ calls[c].res.kind = "ok")
     => calls[c].res.val = IF calls[c].arg = Num(1) THEN Profile(MockJohn)
                           ELSE IF calls[c].arg = Num(2) THEN Profile(MockSarah)
                           ELSE Null

\* C17: in web fallback mode the reads return the fixed mock profiles
\* whatever was saved, deleted or cleared before, and no step changes a
\* table of the embedded database.
C17_WebFallbackServesMocks ==
  /\ [](isWebFallback => \A c \in Callers : ServesMocks(c))
  /\ [][isWebFallback => UNCHANGED <<tableVars, columns>>]_vars

\* C17 witness: on a device that holds a profile with id 1 in its database
\* and entered web fallback mode, getProfileById(1) has returned the mock
\* profile.
C17_Witness ==
  /\ isWebFallback
  /\ platform = "ios"
  /\ 1 \in DOMAIN profiles
  /\ Done("c1", "getProfileById")
  /\ calls["c1"].arg = Num(1)
  /\ calls["c1"].res = Returned(Profile(MockJohn))

RECURSIVE Letters(_)
\* The characters of a text that are neither blanks nor commas, in order.
Letters(text) ==
  IF text = <<>> THEN <<>>
  ELSE IF Head(text) \in {" ", ","} THEN Letters(Tail(text))
  ELSE <<Head(text)>> \o Letters(Tail(text))

RECURSIVE Concat(_)
Concat(list) == IF list = <<>> THEN <<>> ELSE Head(list) \o Concat(Tail(list))

\* C18: the list that onChangeText makes of a text has no empty item, no
\* item with a comma or with a blank at either end, and the letters of its
\* items in the order of the text; the empty text gives the empty list; and
\* the text that loadProfile joined from a list of trimmed, non-empty,
\* comma-free items gives back that list.
C18_SplitTrimsAndDropsEmpty ==
  /\ profile.changed
     => /\ \A i \in 1..Len(profile.parents) :
             LET item == profile.parents[i]
             IN /\ item # <<>>
                /\ item[1] # " " /\ item[Len(item)] # " "
                /\ \A k \in 1..Len(item) : item[k] # ","
        /\ Letters(Concat(profile.parents)) = Letters(profile.parentsText)
        /\ profile.parentsText = <<>> => profile.parents = <<>>
  /\ profile.joined.has => profile.parents = profile.joined.list

\* C18 witness: loadProfile joined a list of two items, one of them with a
\* blank inside, and onChangeText has run on that text.
C18_Witness ==
  /\ profile.changed
  /\ profile.joined.has
  /\ Len(profile.joined.list) = 2
  /\ \E i \in 1..2 : \E k \in 1..Len(profile.joined.list[i]) :
       profile.joined.list[i][k] = " "

\* An initializeDatabase run is in flight, or one has ended without throwing
\* on a device.
InitInFlightOrDone ==
  initPc # "none" \/ (readyPromise = "resolved" /\ platform # "web")

\* Every call of openDatabaseAsync but those of the runs that threw belongs
\* to the one run in flight or done; createTables is called for an open that
\* succeeded only; and when no run threw, each was called once.
OpenedOnce ==
  /\ initCalls.opens = initCalls.threw + (IF InitInFlightOrDone THEN 1 ELSE 0)
  /\ initCalls.creates <= initCalls.opens
  /\ initCalls.threw = 0 /\ (initPc \in {"migrate", "create"} \/ InitCompleted)
       => initCalls.opens = 1 /\ initCalls.creates = 1

\* Caller c goes on after ensureReady in this step, towards its own
\* database call.
GoesOn(c) ==
  /\ calls[c].pc = "awaitReady"
  /\ calls'[c].pc # "awaitReady"
  /\ ~(calls'[c].pc = "done" /\ calls'[c].res.kind = "throw"
       /\ readyPromise' = "null")

\* No caller goes on before readyPromise is resolved, and the tables are
\* changed by the initialization itself or after it only.
NoCallBeforeReady ==
  /\ \A c \in Callers : GoesOn(c) => readyPromise = "resolved"
  /\ tableVars' # tableVars => readyPromise = "resolved" \/ initPc = "migrate"

\* C19: however many operations are started before initializeDatabase has
\* ended, openDatabaseAsync and createTables are called once by the run they
\* all await (a second run starts only after a run threw), and no operation
\* goes on to its database call before the initialization has completed.
C19_InitializedOnce == []OpenedOnce /\ [][NoCallBeforeReady]_vars

\* C19 witness: two operations await one initialization in flight that has
\* opened the database and called createTables.
C19_Witness ==
  /\ \A c \in Callers : Awaiting(c)
  /\ initPc = "create"
  /\ initCalls.opens = 1 /\ initCalls.creates = 1

\* A call of init() that found or obtained the permission as granted sets
\* the flag in this step.
MarkedByGrantedInit ==
  \E c \in Callers :
    /\ ncalls[c].pc \in {"getPermissions", "requestPermissions", "setChannel"}
    /\ ncalls'[c].pc \notin {"getPermissions", "requestPermissions", "setChannel"}
    /\ ncalls'[c].finalStatus = "granted"
    /\ ncalls'[c].initResult = Bool(TRUE)

InitializedOnlyWhenGranted ==
  /\ ~isInitialized /\ isInitialized' => MarkedByGrantedInit
  /\ isInitialized => isInitialized'

\* C20: isInitialized becomes true only in the step in which an init() that
\* found or obtained the permission as granted ends, it never becomes false
\* again, and Notifications.scheduleNotificationAsync is called, and has been
\* called, only with isInitialized true.
C20_InitializedOnlyWhenGranted ==
  /\ [](\A c \in Callers :
          ncalls[c].pc = "osSchedule" \/ ncalls[c].osCalled => isInitialized)
  /\ [][InitializedOnlyWhenGranted]_vars

\* C20 witness: the service was initialized by a call that obtained the
\* permission from the user, a notification was handed to the OS, and the
\* permission has been taken away since.
C20_Witness ==
  /\ isInitialized
  /\ permission = "denied"
  /\ \E c \in Callers :
       /\ ncalls[c].osCalled
       /\ ncalls[c].finalStatus = "granted"

\* In this step the loading screen is left, init() is called or listeners are
\* registered.
LeavesLoading ==
  \/ ShowsLoading /\ ~ShowsLoading'
  \/ \E c \in Callers : ncalls'[c] # ncalls[c] /\ ncalls[c].pc \in {"idle", "done"}
  \/ layout'.listeners # {} /\ layout'.listeners # layout.listeners

DelayIsOver ==
  /\ layout'.isFrameworkReady
  /\ ~layout'.forceDelay
  /\ layout'.gifLoaded

\* C21: the loading screen is left, init() is called and the listeners are
\* registered only in a state where the framework is ready and the delay is
\* over; the timer is pending only once the GIF has loaded and the delay
\* ends only when 2160 ms of it have passed; so while the GIF has not loaded
\* the loading screen is rendered, nothing was called and nothing registered.
C21_LoadingUntilReadyAndDelayed ==
  /\ [](~layout.gifLoaded
          => /\ ShowsLoading
             /\ layout.forceDelay
             /\ ~layout.timer.armed
             /\ ~layout.initCalled
             /\ layout.listeners = {})
  /\ [][/\ LeavesLoading => DelayIsOver
        /\ layout.forceDelay /\ ~layout'.forceDelay
             => layout.timer.armed /\ layout.timer.elapsed >= forceDelayMs]_vars

\* C21 witness: the loading screen was left after the delay, init() was
\* called and the listeners are registered.
C21_Witness ==
  /\ ~ShowsLoading
  /\ layout.initCalled
  /\ layout.listeners = {"response", "received"}
  /\ \E c \in Callers : ncalls[c].op = "init"

\* The errors that opening the database or creating the tables met in this
\* step.
NewInitErrors ==
  {e \in initFaults' \ initFaults : e.site \in {"open", "create"}}

\* A caller starts a data operation in this step.
Begins(c) == calls[c].pc \in {"idle", "done"} /\ calls'[c].pc = "awaitReady"

InitFailureIsHandled ==
  /\ \A e \in NewInitErrors :
       IF e.msg = "cantopen"
       THEN isWebFallback' /\ readyPromise' = "resolved" /\ initPc' = "none"
       ELSE /\ readyPromise' = "null" /\ initPc' = "none"
            /\ isWebFallback' = isWebFallback
  /\ readyPromise = "null" /\ platform # "web" /\ (\E c \in Callers : Begins(c))
       => /\ initPc' = "open" /\ readyPromise' = "pending"
          /\ initCalls'.opens = initCalls.opens + 1
  /\ isWebFallback
       => /\ isWebFallback' /\ readyPromise' = "resolved" /\ initPc' = "none"
          /\ initCalls'.opens = initCalls.opens

\* C22: when opening the database or creating the tables fails with another
\* error than 'unable to open database file', readyPromise is null again and
\* the next data operation calls openDatabaseAsync again; when it fails with
\* that error, the service is in web fallback mode with readyPromise
\* resolved, and from then on it stays so and openDatabaseAsync is not
\* called again.
C22_RetryUnlessCannotOpen == [][InitFailureIsHandled]_vars

\* C22 witness: an initialization threw, a later operation started another
\* one, and that one has completed.
C22_Witness ==
  /\ initCalls.threw = 1
  /\ initCalls.opens = 2
  /\ InitCompleted

\* The reminders, interactions and life events of profile p.
DependentsOf(p) ==
  {r \in reminders \cup interactions \cup lifeEvents : r.profileId = Num(p)}

\* A step that removes the row of a profile is the last statement of a
\* deleteProfile of that profile, and none of its dependents is stored.
ProfileRemovedLast ==
  \A p \in DOMAIN profiles \ DOMAIN profiles' :
    /\ DependentsOf(p) = {}
    /\ \E c \in Callers :
         /\ calls[c].op = "deleteProfile"
         /\ calls[c].arg = Num(p)
         /\ calls[c].pc = "delProfile"

\* A statement of a deleteProfile failed in this step.
DeleteFails(c) ==
  /\ calls[c].op = "deleteProfile"
  /\ calls[c].pc # "done"
  /\ calls'[c].pc = "done" /\ calls'[c].res.kind = "throw"

\* C23: the row of profile p is removed only by the last statement of
\* deleteProfile(p), when the reminders, interactions and life events of p
\* are gone; a statement that fails leaves the row of p where it was.
C23_DependentsBeforeProfile ==
  [][/\ ProfileRemovedLast
     /\ \A c \in Callers : DeleteFails(c) => profiles' = profiles]_vars

\* C23 witness: the statement on life_events of a deleteProfile failed after
\* the reminder and the interaction of the profile were deleted; the profile
\* and its life event are still stored.
C23_Witness ==
  /\ Done("c1", "deleteProfile")
  /\ calls["c1"].res.kind = "throw"
  /\ calls["c1"].res.err.site # "open"
  /\ calls["c1"].arg.v \in DOMAIN profiles
  /\ nextId["reminders"] > 1 /\ reminders = {}
  /\ nextId["interactions"] > 1 /\ interactions = {}
  /\ \E r \in lifeEvents : r.profileId = calls["c1"].arg

SaveOperations == {"CreateProfile.handleSave", "EditProfile.handleSave"}

\* The name is missing, empty or made of blanks only.
BlankName(name) ==
  \/ name \in {Undefined, Null}
  \/ \A i \in 1..Len(name.v) : name.v[i] = " "

\* SAVE is pressed in this step and handleSave runs for c.
Pressed(c) ==
  /\ screens[c].pc \in {"idle", "done"}
  /\ screens'[c].op \in SaveOperations
  /\ screens'[c].pc = "awaiting" \/ screens'[c].alert = "nameRequired"
  /\ screens'[c] # screens[c] \/ Begins(c)

\* handleSave with a name that is missing shows the alert and changes
\* nothing else.
NamelessSaveDoesNothing ==
  \A c \in Callers :
    (Pressed(c) /\ BlankName(profile.name))
    => /\ screens'[c].pc = "done" /\ screens'[c].alert = "nameRequired"
       /\ UNCHANGED <<calls, dbVars, saving, tableVars, columns, remoteVars>>

\* C24: a handleSave that runs with a name that is missing, empty or blank
\* shows the alert 'Name is required' and leaves the calls of the data
\* layer, the saving flag and the stored data as they are; so no
\* createOrUpdateProfile is ever called with such a name and no stored
\* profile has one.
C24_NameIsRequired ==
  /\ [](\A c \in Callers :
          calls[c].op = "createOrUpdateProfile"
            => ~BlankName(calls[c].arg["name"]))
  /\ [](\A i \in DOMAIN profiles : ~BlankName(profiles[i]["name"]))
  /\ [][NamelessSaveDoesNothing]_vars

\* C24 witness: SAVE was pressed with a name of blanks only, after a profile
\* was saved: the alert is shown and the flag is not set.
C24_Witness ==
  /\ screens["c1"].op \in SaveOperations
  /\ screens["c1"].alert = "nameRequired"
  /\ profile.name = Str(<<" ">>)
  /\ DOMAIN profiles # {}
  /\ \A screen \in DOMAIN saving : ~saving[screen]

\* The handleSave runs of a screen that await their save.
SavesInFlight(op) ==
  {c \in Callers : screens[c].op = op /\ screens[c].pc = "awaiting"}

\* C25: of each screen at most one handleSave awaits its save, and the
\* saving flag of the screen is true exactly while one does: it is false
\* again when the handleSave has ended, with a success or with a failure.
C25_OneSaveInFlight ==
  /\ Cardinality(SavesInFlight("CreateProfile.handleSave")) <= 1
  /\ Cardinality(SavesInFlight("EditProfile.handleSave")) <= 1
  /\ saving["create"] <=> SavesInFlight("CreateProfile.handleSave") # {}
  /\ saving["edit"] <=> SavesInFlight("EditProfile.handleSave") # {}

\* C25 witness: a save of the create screen failed after an earlier one
\* succeeded; its handleSave has shown the error and the flag is false again.
C25_Witness ==
  /\ screens["c1"].op = "CreateProfile.handleSave"
  /\ screens["c1"].pc = "done"
  /\ screens["c1"].alert = "error"
  /\ calls["c1"].res.kind = "throw"
  /\ DOMAIN profiles # {}
  /\ ~saving["create"]

\* A call of NotificationService.init() by c resolves in this step.
NotificationInitResolves(c) ==
  /\ ncalls'[c] # ncalls[c]
  /\ ncalls'[c].op = "init"
  /\ ncalls'[c].pc = "done"

\* C26: a call of NotificationService.init() resolves to true when the
\* service is initialized at the time it resolves, a call made on a service
\* that was initialized already included, and to false when it is not.
C26_InitResolvesToInitialized ==
  [][\A c \in Callers :
       NotificationInitResolves(c)
       => ncalls'[c].res = Returned(Bool(isInitialized'))]_vars

\* scheduleReminderNotification has read the clock for this call: init() did
\* not fail before.
ReadTheClock(call) ==
  /\ call.op = "schedule"
  /\ \/ call.pc \in {"osSchedule", "listScheduled"}
     \/ call.pc = "done" /\ call.res # Threw(NotInitializedError)

\* The minimum buffer is applied to this call: the date is ahead of the
\* time read, by less than minimumBufferMs.
BufferApplied(call) ==
  /\ ReadTheClock(call)
  /\ call.arg > call.now
  /\ call.arg - call.now < minimumBufferMs

\* C27: the scheduledFor date of the caller (date) holds the time it was
\* called with (arg), unless the minimum buffer is applied: then it holds
\* the time read by the call plus 5000 ms, which is also the trigger.
C27_DateOfCallerPaddedOnly ==
  \A c \in Callers :
    ncalls[c].op = "schedule"
    => IF BufferApplied(ncalls[c])
       THEN /\ ncalls[c].date = ncalls[c].now + 5000
            /\ ncalls[c].trigger = ncalls[c].date
       ELSE ncalls[c].date = ncalls[c].arg

\* C27 witness: a reminder due in 2500 ms was scheduled with the OS after
\* time had passed; its date now reads 5000 ms after the time of the call.
C27_Witness ==
  /\ ncalls["c1"].op = "schedule"
  /\ ncalls["c1"].pc = "done"
  /\ ncalls["c1"].res.kind = "ok"
  /\ ncalls["c1"].now > 0
  /\ ncalls["c1"].arg = ncalls["c1"].now + 2500
  /\ ncalls["c1"].date = ncalls["c1"].arg + 2500
  /\ \E n \in scheduled : n.trigger = ncalls["c1"].date

\* The operations of the data layer that remove or complete reminders.
RemovingOperations ==
  {"deleteReminder", "deleteProfile", "completeReminder", "clearAllData"}

\* A step of one of these operations: the call begins, or one of its
\* statements runs.
RemovingStep ==
  \E c \in Callers :
    /\ calls'[c] # calls[c]
    /\ calls'[c].op \in RemovingOperations

\* The notifications scheduled with the OS whose identifier no reminder
\* holds.
Orphans(rows) ==
  {n \in scheduled :
     \A r \in rows : r.notificationId # NotificationHandle(n.id)}

\* C28: no step of deleteReminder, deleteProfile, completeReminder or
\* clearAllData changes the set of notifications scheduled with the OS, and
\* a notification leaves that set only when a cancelNotification or
\* cancelAllNotifications of the caller settles.
C28_DataLayerNeverCancels ==
  /\ [][RemovingStep => scheduled' = scheduled]_vars
  /\ [][~(scheduled \subseteq scheduled')
          => \E c \in Callers :
               /\ ncalls[c].op \in {"cancel", "cancelAll"}
               /\ ncalls[c].pc = "osCancel"
               /\ ncalls'[c].pc = "done"]_vars

\* C28 witness: completeReminder has completed a reminder that holds the
\* identifier of a scheduled notification, and the notification is still
\* scheduled.
C28_Witness ==
  /\ calls["c1"].op = "completeReminder"
  /\ calls["c1"].pc = "done"
  /\ calls["c1"].res.kind = "ok"
  /\ \E r \in reminders, n \in scheduled :
       /\ Num(r.id) = calls["c1"].arg
       /\ r.completed = Num(1)
       /\ r.notificationId = NotificationHandle(n.id)

\* The handleSave of the create screen run for c has called
\* createOrUpdateProfile.
CreateSaveCalled(c) ==
  /\ screens[c].op = "CreateProfile.handleSave"
  /\ screens[c].alert # "nameRequired"

\* C29: the profile that the create screen passes to createOrUpdateProfile
\* has the time of the save as its lastContactDate, whatever the date of the
\* form is (selected, cleared or never set), and so has every profile that
\* the screen has stored.
C29_CreatedWithTimeOfSave ==
  /\ \A c \in Callers :
       CreateSaveCalled(c)
       => /\ calls[c].op = "createOrUpdateProfile"
          /\ calls[c].arg["lastContactDate"] = NowIso
          /\ calls[c].arg["lastContactDate"] \notin SelectedDates \cup {Null}
  /\ \A i \in DOMAIN profiles : profiles[i]["lastContactDate"] = NowIso

\* C29 witness: a profile was saved from the create screen while the form
\* held a date selected in the calendar, and the stored profile has the time
\* of the save.
C29_Witness ==
  /\ CreateSaveCalled("c1")
  /\ screens["c1"].pc = "done"
  /\ screens["c1"].alert = "success"
  /\ profile.lastContactDate \in SelectedDates
  /\ DOMAIN profiles # {}
  /\ \A i \in DOMAIN profiles : profiles[i]["lastContactDate"] = NowIso

\* The call of c is a createOrUpdateProfile, in native mode, with an id
\* that no stored profile has.
UpdatesMissingProfile(c) ==
  /\ calls[c].op = "createOrUpdateProfile"
  /\ ~isWebFallback
  /\ Truthy(calls[c].arg["id"])
  /\ calls[c].arg["id"].v \notin DOMAIN profiles

\* The UPDATE of such a call runs without an error in this step.
MissingProfileIsUpdated(c) ==
  /\ UpdatesMissingProfile(c)
  /\ calls[c].pc = "awaitReady"
  /\ calls'[c].pc = "session"

\* A getProfileById of c, in native mode, for an id that no stored profile
\* has, returns in this step.
MissingProfileIsRead(c) ==
  /\ calls[c].op = "getProfileById"
  /\ ~isWebFallback
  /\ calls[c].arg.v \notin DOMAIN profiles
  /\ calls[c].pc = "awaitReady"
  /\ calls'[c].pc = "done"
  /\ calls'[c].res.kind = "ok"

\* C30: createOrUpdateProfile with an id that no stored profile has inserts
\* no row and changes no row (of profiles or of any other table), and
\* returns that id when it ends without an error; a getProfileById of the
\* id, while no profile has it, returns null.
C30_UpdateOfMissingProfile ==
  /\ [][\A c \in Callers :
         MissingProfileIsUpdated(c)
         => /\ UNCHANGED tableVars
            /\ calls'[c].id = calls[c].arg["id"]]_vars
  /\ [](\A c \in Callers :
         (calls[c].op = "createOrUpdateProfile" /\ calls[c].pc = "done"
            /\ calls[c].res.kind = "ok" /\ Truthy(calls[c].arg["id"]))
         => calls[c].res = Returned(calls[c].arg["id"]))
  /\ [][\A c \in Callers :
         MissingProfileIsRead(c) => calls'[c].res = Returned(Null)]_vars

\* C30 witness: a profile was stored and deleted, another profile is still
\* stored, and a createOrUpdateProfile with the id of the deleted one has
\* returned that id without writing a row.
C30_Witness ==
  /\ UpdatesMissingProfile("c1")
  /\ calls["c1"].pc = "done"
  /\ calls["c1"].res = Returned(calls["c1"].arg["id"])
  /\ ~calls["c1"].wrote
  /\ calls["c1"].arg["id"].v < nextId["profiles"]
  /\ DOMAIN profiles # {}

====
